---- MODULE Spec2Model ----
(***************************************************************************)
(* A model of the Reya Network plugin: the intent classifier               *)
(* (IntentAnalyzer), the dispatch gate (smartDispatchProvider), the        *)
(* admission checks of the three resource actions, and the read-through    *)
(* caches of the three services.                                           *)
(*                                                                         *)
(* Strings are sequences of Unicode code points, so that toLowerCase and   *)
(* includes are computed character by character as the runtime computes    *)
(* them.  A confidence is kept in hundredths (0.7 is 70).                  *)
(***************************************************************************)
EXTENDS Integers, Sequences, FiniteSets, TLC

VARIABLES
    phase,          \* where the current turn stands
    message,        \* the Memory being processed: [text |-> string]
    state,          \* the per-turn State: [values, recentActions]
    providerResult, \* what smartDispatchProvider.get returned this turn
    analysisLog,    \* the last analyzeIntent call: its path and outcome
    validateResult, \* action name -> what its validate returned this turn
    now,            \* the clock, in seconds
    remoteVer,      \* which version of its data the remote API serves
    cache,          \* service -> the contents of its NodeCache
    inflight,       \* the getter calls waiting for their fetch
    lastCall,       \* the getter call that completed last
    loads,          \* cache key -> the last successful load of it
    failedEmpty,    \* cache keys whose last fetch failed and left no live entry
    nCalls,         \* getter calls made so far
    nTicks,         \* clock steps taken so far
    requests,       \* the requests sent to the remote API in the current turn
    provided,       \* resource provider -> what its get returned this turn
    replies,        \* action name -> what its handler did this turn
    nTurns,         \* turns started so far
    config          \* the REYA_API_BASE_URL setting, and whether the plugin is loaded

gateVars == <<phase, message, state, providerResult, analysisLog, validateResult>>

cacheVars == <<now, remoteVer, cache, inflight, lastCall, loads, failedEmpty,
               nCalls, nTicks>>

turnVars == <<requests, provided, replies, nTurns>>

vars == <<gateVars, cacheVars, turnVars, config>>

\* ---- string literals: begin

\* "KNOWLEDGE_QUERY"
KNOWLEDGE_QUERY ==
    <<75, 78, 79, 87, 76, 69, 68, 71, 69, 95, 81, 85, 69, 82, 89>>

\* "LIVE_DATA_QUERY"
LIVE_DATA_QUERY ==
    <<76, 73, 86, 69, 95, 68, 65, 84, 65, 95, 81, 85, 69, 82, 89>>

\* "HISTORICAL_DATA_QUERY"
HISTORICAL_DATA_QUERY ==
    <<72, 73, 83, 84, 79, 82, 73, 67, 65, 76, 95, 68, 65, 84, 65, 95, 81, 85, 69, 82, 89>>

\* "COMPARISON_QUERY"
COMPARISON_QUERY ==
    <<67, 79, 77, 80, 65, 82, 73, 83, 79, 78, 95, 81, 85, 69, 82, 89>>

\* "GENERAL_CHAT"
GENERAL_CHAT ==
    <<71, 69, 78, 69, 82, 65, 76, 95, 67, 72, 65, 84>>

\* "PRICE_QUERY"
PRICE_QUERY ==
    <<80, 82, 73, 67, 69, 95, 81, 85, 69, 82, 89>>

\* "MARKET_QUERY"
MARKET_QUERY ==
    <<77, 65, 82, 75, 69, 84, 95, 81, 85, 69, 82, 89>>

\* "ASSET_QUERY"
ASSET_QUERY ==
    <<65, 83, 83, 69, 84, 95, 81, 85, 69, 82, 89>>

\* "general"
SRC_general ==
    <<103, 101, 110, 101, 114, 97, 108>>

\* "knowledge_base"
SRC_knowledge_base ==
    <<107, 110, 111, 119, 108, 101, 100, 103, 101, 95, 98, 97, 115, 101>>

\* "reya_api"
SRC_reya_api ==
    <<114, 101, 121, 97, 95, 97, 112, 105>>

\* "live_data_query"
LIT_live_data_query ==
    <<108, 105, 118, 101, 95, 100, 97, 116, 97, 95, 113, 117, 101, 114, 121>>

\* "historical_data_query"
LIT_historical_data_query ==
    <<104, 105, 115, 116, 111, 114, 105, 99, 97, 108, 95, 100, 97, 116, 97, 95, 113, 117, 101, 114, 121>>

\* "comparison_query"
LIT_comparison_query ==
    <<99, 111, 109, 112, 97, 114, 105, 115, 111, 110, 95, 113, 117, 101, 114, 121>>

\* "general_chat"
LIT_general_chat ==
    <<103, 101, 110, 101, 114, 97, 108, 95, 99, 104, 97, 116>>

\* "staking_query"
LIT_staking_query ==
    <<115, 116, 97, 107, 105, 110, 103, 95, 113, 117, 101, 114, 121>>

\* "Staking_Query"
OTHER_INTENT ==
    <<83, 116, 97, 107, 105, 110, 103, 95, 81, 117, 101, 114, 121>>

\* "SMART_REYA_DISPATCH"
SMART_REYA_DISPATCH ==
    <<83, 77, 65, 82, 84, 95, 82, 69, 89, 65, 95, 68, 73, 83, 80, 65, 84, 67, 72>>

\* "BTC"
BTC ==
    <<66, 84, 67>>

\* "GET_REYA_PRICES"
ACT_GET_REYA_PRICES ==
    <<71, 69, 84, 95, 82, 69, 89, 65, 95, 80, 82, 73, 67, 69, 83>>

\* src/src/services/intentAnalyzer.ts:158
knowledgeMarkers ==
    << <<1095, 1090, 1086, 32, 1090, 1072, 1082, 1086, 1077>>,  \* "chto takoe" (Cyrillic, transliterated)
       <<119, 104, 97, 116, 32, 105, 115>>,  \* "what is"
       <<101, 120, 112, 108, 97, 105, 110>> >>  \* "explain"

\* src/src/services/intentAnalyzer.ts:168
priceMarkers ==
    << <<1094, 1077, 1085, 1072>>,  \* "cena" (Cyrillic, transliterated)
       <<112, 114, 105, 99, 101>>,  \* "price"
       <<1089, 1090, 1086, 1080, 1084, 1086, 1089, 1090, 1100>> >>  \* "stoimost" (Cyrillic, transliterated)

\* "price"
LIT_price ==
    <<112, 114, 105, 99, 101>>

\* src/src/actions/priceAction.ts:107-115
priceKeywords ==
    << <<112, 114, 105, 99, 101>>,  \* "price"
       <<99, 111, 115, 116>>,  \* "cost"
       <<119, 111, 114, 116, 104>>,  \* "worth"
       <<118, 97, 108, 117, 101>>,  \* "value"
       <<116, 114, 97, 100, 105, 110, 103>>,  \* "trading"
       <<109, 97, 114, 107, 101, 116>>,  \* "market"
       <<113, 117, 111, 116, 101>>,  \* "quote"
       <<104, 111, 119, 32, 109, 117, 99, 104>>,  \* "how much"
       <<119, 104, 97, 116, 39, 115, 32, 116, 104, 101, 32, 112, 114, 105, 99, 101>>,  \* "what's the price"
       <<99, 117, 114, 114, 101, 110, 116, 32, 112, 114, 105, 99, 101>>,  \* "current price"
       <<112, 114, 105, 99, 101, 32, 111, 102>>,  \* "price of"
       <<1094, 1077, 1085, 1072>>,  \* "cena" (Cyrillic, transliterated)
       <<1089, 1090, 1086, 1080, 1084, 1086, 1089, 1090, 1100>>,  \* "stoimost" (Cyrillic, transliterated)
       <<1089, 1082, 1086, 1083, 1100, 1082, 1086, 32, 1089, 1090, 1086, 1080, 1090>>,  \* "skolko stoit" (Cyrillic, transliterated)
       <<1094, 1077, 1085, 1091>>,  \* "cenu" (Cyrillic, transliterated)
       <<1094, 1077, 1085, 1099>>,  \* "ceny" (Cyrillic, transliterated)
       <<1087, 1088, 1072, 1081, 1089>>,  \* "prajs" (Cyrillic, transliterated)
       <<1095, 1090, 1086, 32, 1089, 1090, 1086, 1080, 1090>>,  \* "chto stoit" (Cyrillic, transliterated)
       <<1089, 1090, 1086, 1080, 1090>>,  \* "stoit" (Cyrillic, transliterated)
       <<1089, 1082, 1086, 1083, 1100, 1082, 1086>>,  \* "skolko" (Cyrillic, transliterated)
       <<1090, 1086, 1088, 1075, 1080>>,  \* "torgi" (Cyrillic, transliterated)
       <<1082, 1086, 1090, 1080, 1088, 1086, 1074, 1082, 1080>> >>  \* "kotirovki" (Cyrillic, transliterated)

\* src/src/actions/priceAction.ts:117-120, src/src/actions/marketAction.ts:36-39
cryptoSymbols ==
    << <<98, 116, 99>>,  \* "btc"
       <<98, 105, 116, 99, 111, 105, 110>>,  \* "bitcoin"
       <<101, 116, 104>>,  \* "eth"
       <<101, 116, 104, 101, 114, 101, 117, 109>>,  \* "ethereum"
       <<115, 111, 108>>,  \* "sol"
       <<115, 111, 108, 97, 110, 97>>,  \* "solana"
       <<117, 115, 100, 99>>,  \* "usdc"
       <<117, 115, 100, 116>>,  \* "usdt"
       <<104, 121, 112, 101>>,  \* "hype"
       <<100, 111, 103, 101>>,  \* "doge"
       <<97, 100, 97>>,  \* "ada"
       <<109, 97, 116, 105, 99>>,  \* "matic"
       <<97, 118, 97, 120>>,  \* "avax"
       <<108, 105, 110, 107>>,  \* "link"
       <<117, 110, 105>>,  \* "uni"
       <<97, 97, 118, 101>> >>  \* "aave"

\* "reya"
KW_reya ==
    <<114, 101, 121, 97>>

\* src/src/actions/marketAction.ts:22-30
marketKeywords ==
    << <<109, 97, 114, 107, 101, 116>>,  \* "market"
       <<116, 114, 97, 100, 105, 110, 103>>,  \* "trading"
       <<112, 97, 105, 114>>,  \* "pair"
       <<118, 111, 108, 117, 109, 101>>,  \* "volume"
       <<116, 114, 97, 100, 101>>,  \* "trade"
       <<97, 99, 116, 105, 118, 105, 116, 121>>,  \* "activity"
       <<50, 52, 104>>,  \* "24h"
       <<100, 97, 105, 108, 121>>,  \* "daily"
       <<108, 105, 113, 117, 105, 100, 105, 116, 121>>,  \* "liquidity"
       <<116, 117, 114, 110, 111, 118, 101, 114>>,  \* "turnover"
       <<116, 114, 97, 100, 101, 100>>,  \* "traded"
       <<1088, 1099, 1085, 1086, 1082>>,  \* "rynok" (Cyrillic, transliterated)
       <<1090, 1086, 1088, 1075, 1080>>,  \* "torgi" (Cyrillic, transliterated)
       <<1086, 1073, 1098, 1077, 1084>>,  \* "obem" (Cyrillic, transliterated)
       <<1090, 1086, 1088, 1075, 1086, 1074, 1083, 1103>>,  \* "torgovlya" (Cyrillic, transliterated)
       <<1072, 1082, 1090, 1080, 1074, 1085, 1086, 1089, 1090, 1100>>,  \* "aktivnost" (Cyrillic, transliterated)
       <<1086, 1073, 1086, 1088, 1086, 1090>>,  \* "oborot" (Cyrillic, transliterated)
       <<1083, 1080, 1082, 1074, 1080, 1076, 1085, 1086, 1089, 1090, 1100>>,  \* "likvidnost" (Cyrillic, transliterated)
       <<1089, 1091, 1090, 1082, 1080>>,  \* "sutki" (Cyrillic, transliterated)
       <<1089, 1091, 1090, 1086, 1095, 1085, 1099, 1081>> >>  \* "sutochnyj" (Cyrillic, transliterated)

\* src/src/actions/assetAction.ts:27-33
assetKeywords ==
    << <<97, 115, 115, 101, 116>>,  \* "asset"
       <<116, 111, 107, 101, 110>>,  \* "token"
       <<99, 111, 110, 116, 114, 97, 99, 116>>,  \* "contract"
       <<115, 117, 112, 112, 111, 114, 116, 101, 100>>,  \* "supported"
       <<99, 111, 108, 108, 97, 116, 101, 114, 97, 108>>,  \* "collateral"
       <<117, 115, 100, 99>>,  \* "usdc"
       <<117, 115, 100, 116>> >>  \* "usdt"

\* "what"
KW_what ==
    <<119, 104, 97, 116>>

\* "available"
KW_available ==
    <<97, 118, 97, 105, 108, 97, 98, 108, 101>>

\* src/src/providers/priceProvider.ts:194-198
providerPriceKeywords ==
    << <<112, 114, 105, 99, 101>>,  \* "price"
       <<99, 111, 115, 116>>,  \* "cost"
       <<118, 97, 108, 117, 101>>,  \* "value"
       <<119, 111, 114, 116, 104>>,  \* "worth"
       <<117, 115, 100>>,  \* "usd"
       <<100, 111, 108, 108, 97, 114>>,  \* "dollar"
       <<36>>,  \* "$"
       <<101, 120, 112, 101, 110, 115, 105, 118, 101>>,  \* "expensive"
       <<99, 104, 101, 97, 112>>,  \* "cheap"
       <<114, 97, 116, 101>>,  \* "rate"
       <<113, 117, 111, 116, 101>>,  \* "quote"
       <<99, 117, 114, 114, 101, 110, 116>>,  \* "current"
       <<108, 97, 116, 101, 115, 116>>,  \* "latest"
       <<104, 111, 119, 32, 109, 117, 99, 104>>,  \* "how much"
       <<119, 104, 97, 116, 39, 115>>,  \* "what's"
       <<119, 104, 97, 116, 115>>,  \* "whats"
       <<116, 114, 97, 100, 105, 110, 103, 32, 97, 116>>,  \* "trading at"
       <<109, 97, 114, 107, 101, 116, 32, 112, 114, 105, 99, 101>> >>  \* "market price"

\* "reya-markets"
KEY_reya_markets ==
    <<114, 101, 121, 97, 45, 109, 97, 114, 107, 101, 116, 115>>

\* "reya-markets-data"
KEY_reya_markets_data ==
    <<114, 101, 121, 97, 45, 109, 97, 114, 107, 101, 116, 115, 45, 100, 97, 116, 97>>

\* "reya-market-data-"
KEY_reya_market_data_ ==
    <<114, 101, 121, 97, 45, 109, 97, 114, 107, 101, 116, 45, 100, 97, 116, 97, 45>>

\* "reya-prices"
KEY_reya_prices ==
    <<114, 101, 121, 97, 45, 112, 114, 105, 99, 101, 115>>

\* "reya-price-"
KEY_reya_price_ ==
    <<114, 101, 121, 97, 45, 112, 114, 105, 99, 101, 45>>

\* "reya-assets"
KEY_reya_assets ==
    <<114, 101, 121, 97, 45, 97, 115, 115, 101, 116, 115>>

\* "1"
ID_1 ==
    <<49>>

\* "2"
ID_2 ==
    <<50>>

\* "3"
ID_3 ==
    <<51>>

\* "BTCUSD"
PAIR_BTCUSD ==
    <<66, 84, 67, 85, 83, 68>>

\* "ETHUSD"
PAIR_ETHUSD ==
    <<69, 84, 72, 85, 83, 68>>

\* "BTC-rUSD"
TICKER_BTC_rUSD ==
    <<66, 84, 67, 45, 114, 85, 83, 68>>

\* "ETH-rUSD"
TICKER_ETH_rUSD ==
    <<69, 84, 72, 45, 114, 85, 83, 68>>

\* "WBTC-rUSD"
TICKER_WBTC_rUSD ==
    <<87, 66, 84, 67, 45, 114, 85, 83, 68>>

\* "btc-rusd"
TICKER_btc_rusd ==
    <<98, 116, 99, 45, 114, 117, 115, 100>>

\* "USDC"
SHORT_USDC ==
    <<85, 83, 68, 67>>

\* "rUSD"
SHORT_rUSD ==
    <<114, 85, 83, 68>>

\* "WETH"
SHORT_WETH ==
    <<87, 69, 84, 72>>

\* src/src/actions/priceAction.ts:158-171
symbolRules ==
    << [keys |-> << <<104, 121, 112, 101>> >>, symbol |-> <<72, 89, 80, 69>>],  \* hype -> HYPE
       [keys |-> << <<98, 116, 99>>, <<98, 105, 116, 99, 111, 105, 110>> >>, symbol |-> <<66, 84, 67>>],  \* btc | bitcoin -> BTC
       [keys |-> << <<101, 116, 104>>, <<101, 116, 104, 101, 114, 101, 117, 109>> >>, symbol |-> <<69, 84, 72>>],  \* eth | ethereum -> ETH
       [keys |-> << <<115, 111, 108>>, <<115, 111, 108, 97, 110, 97>> >>, symbol |-> <<83, 79, 76>>],  \* sol | solana -> SOL
       [keys |-> << <<117, 115, 100, 99>> >>, symbol |-> <<85, 83, 68, 67>>],  \* usdc -> USDC
       [keys |-> << <<117, 115, 100, 116>> >>, symbol |-> <<85, 83, 68, 84>>],  \* usdt -> USDT
       [keys |-> << <<97, 118, 97, 120>>, <<97, 118, 97, 108, 97, 110, 99, 104, 101>> >>, symbol |-> <<65, 86, 65, 88>>],  \* avax | avalanche -> AVAX
       [keys |-> << <<100, 111, 103, 101>>, <<100, 111, 103, 101, 99, 111, 105, 110>> >>, symbol |-> <<68, 79, 71, 69>>],  \* doge | dogecoin -> DOGE
       [keys |-> << <<97, 100, 97>>, <<99, 97, 114, 100, 97, 110, 111>> >>, symbol |-> <<65, 68, 65>>],  \* ada | cardano -> ADA
       [keys |-> << <<100, 111, 116>>, <<112, 111, 108, 107, 97, 100, 111, 116>> >>, symbol |-> <<68, 79, 84>>],  \* dot | polkadot -> DOT
       [keys |-> << <<108, 105, 110, 107>>, <<99, 104, 97, 105, 110, 108, 105, 110, 107>> >>, symbol |-> <<76, 73, 78, 75>>],  \* link | chainlink -> LINK
       [keys |-> << <<109, 97, 116, 105, 99>>, <<112, 111, 108, 121, 103, 111, 110>> >>, symbol |-> <<77, 65, 84, 73, 67>>],  \* matic | polygon -> MATIC
       [keys |-> << <<97, 116, 111, 109>>, <<99, 111, 115, 109, 111, 115>> >>, symbol |-> <<65, 84, 79, 77>>],  \* atom | cosmos -> ATOM
       [keys |-> << <<114, 117, 115, 100>>, <<114, 101, 121, 97>> >>, symbol |-> <<114, 85, 83, 68>>] >>  \* rusd | reya -> rUSD

\* src/src/actions/assetAction.ts:59-65
assetRules ==
    << [keys |-> << <<117, 115, 100, 99>> >>, symbol |-> <<85, 83, 68, 67>>],  \* usdc -> USDC
       [keys |-> << <<117, 115, 100, 116>> >>, symbol |-> <<85, 83, 68, 84>>],  \* usdt -> USDT
       [keys |-> << <<101, 116, 104>>, <<101, 116, 104, 101, 114, 101, 117, 109>> >>, symbol |-> <<69, 84, 72>>] >>  \* eth | ethereum -> ETH

\* "reya_api_price"
SRC_reya_api_price ==
    <<114, 101, 121, 97, 95, 97, 112, 105, 95, 112, 114, 105, 99, 101>>

\* "reya_api_market"
SRC_reya_api_market ==
    <<114, 101, 121, 97, 95, 97, 112, 105, 95, 109, 97, 114, 107, 101, 116>>

\* "reya_api_asset"
SRC_reya_api_asset ==
    <<114, 101, 121, 97, 95, 97, 112, 105, 95, 97, 115, 115, 101, 116>>

\* "api_error"
SRC_api_error ==
    <<97, 112, 105, 95, 101, 114, 114, 111, 114>>

\* "general_chat"
SRC_general_chat ==
    <<103, 101, 110, 101, 114, 97, 108, 95, 99, 104, 97, 116>>

\* "comparison_hybrid"
SRC_comparison_hybrid ==
    <<99, 111, 109, 112, 97, 114, 105, 115, 111, 110, 95, 104, 121, 98, 114, 105, 100>>

\* "historical_data"
SRC_historical_data ==
    <<104, 105, 115, 116, 111, 114, 105, 99, 97, 108, 95, 100, 97, 116, 97>>

\* "fallback"
SRC_fallback ==
    <<102, 97, 108, 108, 98, 97, 99, 107>>

\* "what is BTC price"
TXT_what_is_btc_price ==
    <<119, 104, 97, 116, 32, 105, 115, 32, 66, 84, 67, 32, 112, 114, 105, 99, 101>>

\* "BTC Price"
TXT_BTC_Price ==
    <<66, 84, 67, 32, 80, 114, 105, 99, 101>>

\* "sol price today"
TXT_sol_price_today ==
    <<115, 111, 108, 32, 112, 114, 105, 99, 101, 32, 116, 111, 100, 97, 121>>

\* "Explain usdc token"
TXT_Explain_usdc_token ==
    <<69, 120, 112, 108, 97, 105, 110, 32, 117, 115, 100, 99, 32, 116, 111, 107, 101, 110>>

\* "hello"
TXT_hello ==
    <<104, 101, 108, 108, 111>>

\* "btc market volume"
TXT_btc_market_volume ==
    <<98, 116, 99, 32, 109, 97, 114, 107, 101, 116, 32, 118, 111, 108, 117, 109, 101>>

\* "list supported assets"
TXT_list_supported_assets ==
    <<108, 105, 115, 116, 32, 115, 117, 112, 112, 111, 114, 116, 101, 100, 32, 97, 115, 115, 101, 116, 115>>

\* "Cena BTC" (Cyrillic, transliterated)
TXT_cena_BTC ==
    <<1062, 1077, 1085, 1072, 32, 66, 84, 67>>

\* "CHto takoe rUSD" (Cyrillic, transliterated)
TXT_chto_takoe_rusd ==
    <<1063, 1090, 1086, 32, 1090, 1072, 1082, 1086, 1077, 32, 114, 85, 83, 68>>

\* ""
TXT_empty ==
    <<>>

\* The message texts a turn is started with.
Texts ==
    {TXT_what_is_btc_price,
     TXT_BTC_Price,
     TXT_sol_price_today,
     TXT_Explain_usdc_token,
     TXT_hello,
     TXT_btc_market_volume,
     TXT_list_supported_assets,
     TXT_cena_BTC,
     TXT_chto_takoe_rusd,
     TXT_empty}

\* ---- string literals: end

(***************************************************************************)
(* String.prototype.toLowerCase and String.prototype.includes.             *)
(***************************************************************************)

\* Latin A-Z and Cyrillic U+0410-U+042F map 32 up, Cyrillic U+0400-U+040F 80 up.
toLowerCaseChar(c) ==
    IF (c >= 65 /\ c <= 90) \/ (c >= 1040 /\ c <= 1071) THEN c + 32
    ELSE IF c >= 1024 /\ c <= 1039 THEN c + 80
    ELSE c

toLowerCase(s) ==
    [i \in 1..Len(s) |-> toLowerCaseChar(s[i])]

includes(s, sub) ==
    \E i \in 0..(Len(s) - Len(sub)) : \A j \in 1..Len(sub) : s[i + j] = sub[j]

\* keywords.some(keyword => text.includes(keyword))
someIncluded(text, keywords) ==
    \E k \in 1..Len(keywords) : includes(text, keywords[k])

(***************************************************************************)
(* JavaScript values.  An object is a function from its field names; a     *)
(* missing field is a name outside its domain.  A boolean or number read   *)
(* from JSON is kept as a token until the code coerces it.                 *)
(***************************************************************************)

\* {}
EmptyObject == [f \in {} |-> TRUE]

\* The value of a string-typed field that is not there.
undefined == <<-1>>

has(obj, f) == f \in DOMAIN obj

\* v || d, v a JSON token
orDefault(v, d) ==
    IF v \in {"undefined", "null", "false", "0", ""} THEN d ELSE v

(***************************************************************************)
(* IntentAnalyzer (src/src/services/intentAnalyzer.ts).                    *)
(***************************************************************************)

IntentType ==
    {KNOWLEDGE_QUERY, LIVE_DATA_QUERY, HISTORICAL_DATA_QUERY, COMPARISON_QUERY,
     GENERAL_CHAT, PRICE_QUERY, MARKET_QUERY, ASSET_QUERY}

\* What runtime.useModel can do: raise, or return a text.  A text is a JSON
\* document or something else, alone or inside a ```json fence.  A JSON
\* document is null or an object whose fields may each be missing.
JsonObjects ==
    { [json |-> "object", intent |-> i, confidence |-> c, reasoning |-> r,
       shouldUseAPI |-> a, shouldUseKnowledge |-> k, assets |-> e] :
        i \in IntentType \cup {OTHER_INTENT, undefined},
        c \in {"undefined", "0", "95"},
        r \in {"undefined"},
        a \in {"undefined", "true", "false"},
        k \in {"undefined", "true", "false"},
        e \in {"undefined", "BTC"} }

JsonDocuments ==
    JsonObjects \cup {[json |-> "null"], [json |-> "invalid"]}

ModelOutcomes ==
    {[raised |-> TRUE]}
    \cup { [raised |-> FALSE, fenced |-> f, body |-> d] :
             f \in BOOLEAN, d \in JsonDocuments }

\* response.replace(/```json\n?/g, '').replace(/```\n?/g, '').trim()
cleanResponse(response) ==
    [response EXCEPT !.fenced = FALSE]

\* JSON.parse raises on a text that is not one JSON document.
jsonParseRaises(text) ==
    text.fenced \/ text.body.json = "invalid"

\* The number a confidence token stands for, in hundredths.
confidenceOf(token) ==
    CASE token = "95" -> 95
      [] token = "0.8" -> 80
      [] OTHER -> 0

\* parsed.extractedEntities || {}
entitiesOf(token) ==
    IF token = "undefined" THEN EmptyObject ELSE [assets |-> <<BTC>>]

\* parseAnalysisResponse: [raised |-> TRUE], or the analysis built from the
\* parsed object.  Reading a field of null raises a TypeError.
parseAnalysisResponse(response) ==
    LET cleaned == cleanResponse(response)
        parsed == cleaned.body
    IN  IF jsonParseRaises(cleaned) \/ parsed.json = "null"
        THEN [raised |-> TRUE]
        ELSE [raised |-> FALSE,
              value |->
                [intent |-> parsed.intent,
                 confidence |-> confidenceOf(orDefault(parsed.confidence, "0.8")),
                 reasoning |-> orDefault(parsed.reasoning, "LLM analysis"),
                 shouldUseAPI |-> orDefault(parsed.shouldUseAPI, "false"),
                 shouldUseKnowledge |-> orDefault(parsed.shouldUseKnowledge, "false"),
                 extractedEntities |-> entitiesOf(parsed.assets)]]

MutFallbackPriceFirst(userMessage) ==
    LET text == toLowerCase(userMessage)
    IN  IF someIncluded(text, priceMarkers)
        THEN [intent |-> PRICE_QUERY, confidence |-> 70,
              reasoning |-> "Fallback: detected price request",
              shouldUseAPI |-> "true", shouldUseKnowledge |-> "false"]
        ELSE IF someIncluded(text, knowledgeMarkers)
        THEN [intent |-> KNOWLEDGE_QUERY, confidence |-> 70,
              reasoning |-> "Fallback: detected explanation request",
              shouldUseAPI |-> "false", shouldUseKnowledge |-> "true"]
        ELSE [intent |-> GENERAL_CHAT, confidence |-> 50,
              reasoning |-> "Fallback: no clear intent detected",
              shouldUseAPI |-> "false", shouldUseKnowledge |-> "false"]

MutFallbackCaseSensitive(userMessage) ==
    LET text == userMessage
    IN  IF someIncluded(text, knowledgeMarkers)
        THEN [intent |-> KNOWLEDGE_QUERY, confidence |-> 70,
              reasoning |-> "Fallback: detected explanation request",
              shouldUseAPI |-> "false", shouldUseKnowledge |-> "true"]
        ELSE IF someIncluded(text, priceMarkers)
        THEN [intent |-> PRICE_QUERY, confidence |-> 70,
              reasoning |-> "Fallback: detected price request",
              shouldUseAPI |-> "true", shouldUseKnowledge |-> "false"]
        ELSE [intent |-> GENERAL_CHAT, confidence |-> 50,
              reasoning |-> "Fallback: no clear intent detected",
              shouldUseAPI |-> "false", shouldUseKnowledge |-> "false"]

fallbackAnalysis(userMessage) ==
    LET text == toLowerCase(userMessage)
    IN  IF someIncluded(text, knowledgeMarkers)
        THEN [intent |-> KNOWLEDGE_QUERY, confidence |-> 70,
              reasoning |-> "Fallback: detected explanation request",
              shouldUseAPI |-> "false", shouldUseKnowledge |-> "true"]
        ELSE IF someIncluded(text, priceMarkers)
        THEN [intent |-> PRICE_QUERY, confidence |-> 70,
              reasoning |-> "Fallback: detected price request",
              shouldUseAPI |-> "true", shouldUseKnowledge |-> "false"]
        ELSE [intent |-> GENERAL_CHAT, confidence |-> 50,
              reasoning |-> "Fallback: no clear intent detected",
              shouldUseAPI |-> "false", shouldUseKnowledge |-> "false"]

MutAnalyzeRethrows(msg, outcome) ==
    IF outcome.raised
    THEN [raised |-> FALSE, path |-> "fallback", value |-> fallbackAnalysis(msg.text)]
    ELSE LET parsed == parseAnalysisResponse(outcome)
         IN  IF parsed.raised
             THEN [raised |-> TRUE, path |-> "llm"]
             ELSE [raised |-> FALSE, path |-> "llm", value |-> parsed.value]

\* analyzeIntent(message) when the model call ends as `outcome`: the analysis
\* returned and the path that produced it.
analyzeIntent(msg, outcome) ==
    IF outcome.raised
    THEN [raised |-> FALSE, path |-> "fallback", value |-> fallbackAnalysis(msg.text)]
    ELSE LET parsed == parseAnalysisResponse(outcome)
         IN  IF parsed.raised
             THEN [raised |-> FALSE, path |-> "fallback",
                   value |-> fallbackAnalysis(msg.text)]
             ELSE [raised |-> FALSE, path |-> "llm", value |-> parsed.value]

(***************************************************************************)
(* smartDispatchProvider (src/src/providers/marketProvider.ts:192-273).    *)
(***************************************************************************)

MutSwitchKnowledgeAllowed(intent) ==
    CASE intent = KNOWLEDGE_QUERY ->
            [raised |-> FALSE, allowReyaActions |-> TRUE,
             blockOtherActions |-> TRUE, usedSource |-> SRC_knowledge_base]
      [] intent \in {PRICE_QUERY, MARKET_QUERY, ASSET_QUERY} ->
            [raised |-> FALSE, allowReyaActions |-> TRUE,
             blockOtherActions |-> FALSE, usedSource |-> SRC_reya_api]
      [] intent = undefined ->
            [raised |-> TRUE]
      [] OTHER ->
            [raised |-> FALSE, allowReyaActions |-> FALSE,
             blockOtherActions |-> FALSE, usedSource |-> toLowerCase(intent)]

MutSwitchNoDefault(intent) ==
    CASE intent = KNOWLEDGE_QUERY ->
            [raised |-> FALSE, allowReyaActions |-> FALSE,
             blockOtherActions |-> TRUE, usedSource |-> SRC_knowledge_base]
      [] intent \in {PRICE_QUERY, MARKET_QUERY, ASSET_QUERY} ->
            [raised |-> FALSE, allowReyaActions |-> TRUE,
             blockOtherActions |-> FALSE, usedSource |-> SRC_reya_api]
      [] intent \in {COMPARISON_QUERY, HISTORICAL_DATA_QUERY, GENERAL_CHAT} ->
            [raised |-> FALSE, allowReyaActions |-> FALSE,
             blockOtherActions |-> FALSE, usedSource |-> toLowerCase(intent)]
      [] OTHER ->
            [raised |-> TRUE]

\* The switch over analysis.intent (lines 211-236 of the provider).  The
\* default branch calls analysis.intent.toLowerCase(), which raises a
\* TypeError when the analysis has no intent.
dispatchSwitch(intent) ==
    CASE intent = KNOWLEDGE_QUERY ->
            [raised |-> FALSE, allowReyaActions |-> FALSE,
             blockOtherActions |-> TRUE, usedSource |-> SRC_knowledge_base]
      [] intent \in {PRICE_QUERY, MARKET_QUERY, ASSET_QUERY} ->
            [raised |-> FALSE, allowReyaActions |-> TRUE,
             blockOtherActions |-> FALSE, usedSource |-> SRC_reya_api]
      [] intent = undefined ->
            [raised |-> TRUE]
      [] OTHER ->
            [raised |-> FALSE, allowReyaActions |-> FALSE,
             blockOtherActions |-> FALSE, usedSource |-> toLowerCase(intent)]

MutGateConfidenceGated(analysis, timestamp) ==
    LET flags == IF analysis.raised THEN [raised |-> TRUE]
                 ELSE dispatchSwitch(analysis.value.intent)
    IN  IF flags.raised
        THEN [values |-> EmptyObject, data |-> [smartDispatchError |-> TRUE]]
        ELSE [values |->
                [smartDispatch |->
                    [intent |-> analysis.value.intent,
                     confidence |-> analysis.value.confidence,
                     reasoning |-> analysis.value.reasoning,
                     shouldUseAPI |-> analysis.value.shouldUseAPI,
                     shouldUseKnowledge |-> analysis.value.shouldUseKnowledge,
                     allowReyaActions |->
                        flags.allowReyaActions /\ analysis.value.confidence >= 90,
                     blockOtherActions |-> flags.blockOtherActions,
                     usedSource |-> flags.usedSource,
                     extractedEntities |->
                        IF has(analysis.value, "extractedEntities")
                        THEN analysis.value.extractedEntities ELSE EmptyObject,
                     timestamp |-> timestamp]],
              data |-> [smartDispatchRaw |-> analysis.value]]

\* What the provider's get returns for an analysis: the published record,
\* or the no-op of its catch block.
smartDispatchProviderGet(analysis, timestamp) ==
    LET flags == IF analysis.raised THEN [raised |-> TRUE]
                 ELSE dispatchSwitch(analysis.value.intent)
    IN  IF flags.raised
        THEN [values |-> EmptyObject, data |-> [smartDispatchError |-> TRUE]]
        ELSE [values |->
                [smartDispatch |->
                    [intent |-> analysis.value.intent,
                     confidence |-> analysis.value.confidence,
                     reasoning |-> analysis.value.reasoning,
                     shouldUseAPI |-> analysis.value.shouldUseAPI,
                     shouldUseKnowledge |-> analysis.value.shouldUseKnowledge,
                     allowReyaActions |-> flags.allowReyaActions,
                     blockOtherActions |-> flags.blockOtherActions,
                     usedSource |-> flags.usedSource,
                     extractedEntities |->
                        IF has(analysis.value, "extractedEntities")
                        THEN analysis.value.extractedEntities ELSE EmptyObject,
                     timestamp |-> timestamp]],
              data |-> [smartDispatchRaw |-> analysis.value]]

(***************************************************************************)
(* The validate checks of the resource actions.                            *)
(***************************************************************************)

\* What the runtime may hold in state.recentActions: nothing, or the result
\* of an earlier SMART_REYA_DISPATCH run, whose data has one of the shapes
\* the action's handler returns (src/src/actions/assetAction.ts:228-287).
RecentActionsChoices ==
    { <<>>,
      << [actionName |-> SMART_REYA_DISPATCH,
          data |-> [actionName |-> SMART_REYA_DISPATCH, source |-> SRC_reya_api,
                    allowReyaActions |-> TRUE]] >>,
      << [actionName |-> SMART_REYA_DISPATCH,
          data |-> [actionName |-> SMART_REYA_DISPATCH, source |-> SRC_knowledge_base,
                    blockOtherActions |-> TRUE]] >>,
      << [actionName |-> ACT_GET_REYA_PRICES,
          data |-> [actionName |-> ACT_GET_REYA_PRICES, allowReyaActions |-> TRUE]] >> }

\* state.recentActions.find(action => action.actionName === "SMART_REYA_DISPATCH")?.data
recentDispatchData(st) ==
    LET actions == IF has(st, "recentActions") THEN st.recentActions ELSE <<>>
        hits == {i \in 1..Len(actions) : actions[i].actionName = SMART_REYA_DISPATCH}
        first == CHOOSE i \in hits : \A j \in hits : i <= j
    IN  IF hits = {} THEN EmptyObject
        ELSE IF has(actions[first], "data") THEN actions[first].data
        ELSE EmptyObject

MutDispatchDataRecentFirst(st) ==
    IF recentDispatchData(st) # EmptyObject
    THEN recentDispatchData(st)
    ELSE IF has(st, "values") /\ has(st.values, "smartDispatch")
    THEN st.values.smartDispatch
    ELSE EmptyObject

\* state?.values?.smartDispatch ?? recentActions.find(...)?.data, with
\* undefined given as the empty object (only allowReyaActions is read).
smartDispatchData(st) ==
    IF has(st, "values") /\ has(st.values, "smartDispatch")
    THEN st.values.smartDispatch
    ELSE recentDispatchData(st)

\* smartDispatchData?.allowReyaActions, as a condition
approved(data) ==
    has(data, "allowReyaActions") /\ data.allowReyaActions

MutAssetValidateNoGate(msg, st) ==
    LET text == toLowerCase(msg.text)
    IN  \/ someIncluded(text, assetKeywords)
        \/ (includes(text, KW_what) /\ includes(text, KW_available))

\* getAssetsAction.validate
getAssetsValidate(msg, st) ==
    IF approved(smartDispatchData(st))
    THEN LET text == toLowerCase(msg.text)
         IN  \/ someIncluded(text, assetKeywords)
             \/ (includes(text, KW_what) /\ includes(text, KW_available))
    ELSE FALSE

\* getPricesAction.validate: the state is a parameter it never reads.
getPricesValidate(msg, st) ==
    LET messageText == toLowerCase(msg.text)
        hasPriceKeyword == someIncluded(messageText, priceKeywords)
        hasCryptoSymbol == \/ someIncluded(messageText, cryptoSymbols)
                           \/ includes(messageText, KW_reya)
    IN  hasPriceKeyword \/ hasCryptoSymbol

\* getMarketsAction.validate: it takes no state.
getMarketsValidate(msg) ==
    LET text == toLowerCase(msg.text)
        hasMarketKeyword == someIncluded(text, marketKeywords)
        hasReyaKeyword == includes(text, KW_reya)
        hasCryptoSymbol == someIncluded(text, cryptoSymbols)
    IN  hasMarketKeyword \/ (hasReyaKeyword /\ hasCryptoSymbol)

(***************************************************************************)
(* The remote API.  What an endpoint serves depends on the version of the  *)
(* exchange's data; the bodies are of the types of src/src/types/index.ts, *)
(* with the fields the plugin reads.                                       *)
(***************************************************************************)

MarketIds == {ID_1, ID_2}

PairIds == {PAIR_BTCUSD}

\* GET /api/trading/markets
marketsBody(ver) ==
    << [id |-> ID_1, ticker |-> TICKER_BTC_rUSD, isActive |-> TRUE],
       [id |-> ID_2, ticker |-> TICKER_ETH_rUSD, isActive |-> (ver = 1)] >>

\* GET /api/trading/market/{marketId}/data
marketDataBody(marketId, ver) ==
    [marketId |-> marketId,
     last24hVolume |-> IF marketId = ID_1 THEN 100 * ver ELSE 150]

\* GET /api/trading/markets/data: the data of the active markets
marketsDataBody(ver) ==
    IF ver = 1
    THEN << marketDataBody(ID_1, ver), marketDataBody(ID_2, ver) >>
    ELSE << marketDataBody(ID_1, ver) >>

\* GET /api/trading/prices/{assetPairId}
priceBody(assetPairId, ver) ==
    [marketId |-> IF assetPairId = PAIR_BTCUSD THEN 1 ELSE 2,
     price |-> IF assetPairId = PAIR_BTCUSD THEN 60000 + ver ELSE 3000]

\* GET /api/trading/prices: an object, given as its entries in key order.
pricesBody(ver) ==
    << <<PAIR_BTCUSD, priceBody(PAIR_BTCUSD, ver)>>,
       <<PAIR_ETHUSD, priceBody(PAIR_ETHUSD, ver)>> >>

\* GET /api/trading/assets
assetsBody(ver) ==
    IF ver = 1
    THEN << [short |-> SHORT_USDC], [short |-> SHORT_rUSD] >>
    ELSE << [short |-> SHORT_USDC], [short |-> SHORT_rUSD], [short |-> SHORT_WETH] >>

(***************************************************************************)
(* NodeCache, as the services use it: get(key) and set(key, value, ttl).   *)
(* A cache is a function from its keys to [v |-> value, t |-> expiry].     *)
(***************************************************************************)

\* src/src/constants/index.ts:15-22, seconds
CACHE_TTL ==
    [MARKETS |-> 300, MARKET_DATA |-> 30, ASSETS |-> 1800, PRICES |-> 10]

EmptyCache == [k \in {} |-> TRUE]

\* An entry expires once the clock has passed its expiry; t = 0 never expires.
cacheLive(c, key, t) ==
    key \in DOMAIN c /\ ~(c[key].t # 0 /\ c[key].t < t)

MutCacheGetNeverExpires(c, key, t) ==
    IF key \in DOMAIN c
    THEN [found |-> TRUE, value |-> c[key].v]
    ELSE [found |-> FALSE]

\* this.cache.get(key)
cacheGet(c, key, t) ==
    IF cacheLive(c, key, t)
    THEN [found |-> TRUE, value |-> c[key].v]
    ELSE [found |-> FALSE]

\* get deletes the entry it finds expired.
cacheAfterGet(c, key, t) ==
    IF key \in DOMAIN c /\ ~cacheLive(c, key, t)
    THEN [k \in DOMAIN c \ {key} |-> c[k]]
    ELSE c

\* this.cache.set(key, value, ttl)
cacheSet(c, key, value, ttl, t) ==
    [k \in DOMAIN c \cup {key} |->
        IF k = key
        THEN [v |-> value, t |-> IF ttl = 0 THEN 0 ELSE t + ttl]
        ELSE c[k]]

(***************************************************************************)
(* The getters of ReyaMarketService, ReyaPriceService, ReyaAssetService.   *)
(***************************************************************************)

Services == {"ReyaMarketService", "ReyaPriceService", "ReyaAssetService"}

\* The calls the model makes: a getter and its argument, if it takes one.
GetterCalls ==
    { [op |-> o, arg |-> <<>>] :
        o \in {"getMarkets", "getMarketsData", "getPrices", "getAssets"} }
    \cup { [op |-> "getMarketData", arg |-> m] : m \in MarketIds }
    \cup { [op |-> "getPrice", arg |-> p] : p \in PairIds }

serviceOf(op) ==
    CASE op \in {"getMarkets", "getMarketsData", "getMarketData"} -> "ReyaMarketService"
      [] op \in {"getPrices", "getPrice"} -> "ReyaPriceService"
      [] op = "getAssets" -> "ReyaAssetService"

\* new NodeCache({ stdTTL: ... }) in each service's constructor
stdTTL(service) ==
    CASE service = "ReyaMarketService" -> CACHE_TTL.MARKETS
      [] service = "ReyaPriceService" -> CACHE_TTL.PRICES
      [] service = "ReyaAssetService" -> CACHE_TTL.ASSETS

MutCacheKeyNoId(op, arg) ==
    CASE op = "getMarkets" -> KEY_reya_markets
      [] op = "getMarketsData" -> KEY_reya_markets_data
      [] op = "getMarketData" -> KEY_reya_market_data_
      [] op = "getPrices" -> KEY_reya_prices
      [] op = "getPrice" -> KEY_reya_price_
      [] op = "getAssets" -> KEY_reya_assets

\* The cacheKey constant of each getter.
cacheKey(op, arg) ==
    CASE op = "getMarkets" -> KEY_reya_markets
      [] op = "getMarketsData" -> KEY_reya_markets_data
      [] op = "getMarketData" -> KEY_reya_market_data_ \o arg
      [] op = "getPrices" -> KEY_reya_prices
      [] op = "getPrice" -> KEY_reya_price_ \o arg
      [] op = "getAssets" -> KEY_reya_assets

MutTtlOfStd(op) ==
    stdTTL(serviceOf(op))

\* The ttl each getter passes to cache.set.
ttlOf(op) ==
    CASE op = "getMarkets" -> CACHE_TTL.MARKETS
      [] op \in {"getMarketsData", "getMarketData"} -> CACHE_TTL.MARKET_DATA
      [] op \in {"getPrices", "getPrice"} -> CACHE_TTL.PRICES
      [] op = "getAssets" -> CACHE_TTL.ASSETS

\* What the endpoint behind a getter serves.
apiBody(op, arg, ver) ==
    CASE op = "getMarkets" -> marketsBody(ver)
      [] op = "getMarketsData" -> marketsDataBody(ver)
      [] op = "getMarketData" -> marketDataBody(arg, ver)
      [] op = "getPrices" -> pricesBody(ver)
      [] op = "getPrice" -> priceBody(arg, ver)
      [] op = "getAssets" -> assetsBody(ver)

\* What a getter makes of the body: getPrices turns the object into the list
\* of its values, each with its key as assetPairId; the others return it.
fromBody(op, body) ==
    IF op = "getPrices"
    THEN [i \in 1..Len(body) |-> ("assetPairId" :> body[i][1]) @@ body[i][2]]
    ELSE body

\* How a fetch can end: a body, or one of the failures that make the getter
\* throw: the promise of fetch or of response.json() rejects, or response.ok
\* is false.
FetchErrors == {"rejected", "http"}

MutGetterCachesFailure(c, op, arg, resp, t) ==
    IF resp.ok
    THEN LET value == fromBody(op, resp.body)
         IN  [raised |-> FALSE, value |-> value,
              cache |-> cacheSet(c, cacheKey(op, arg), value, ttlOf(op), t)]
    ELSE [raised |-> TRUE, error |-> resp.error,
          cache |-> cacheSet(c, cacheKey(op, arg), <<>>, ttlOf(op), t)]

MutGetterKeepsFirstWrite(c, op, arg, resp, t) ==
    IF resp.ok
    THEN LET value == fromBody(op, resp.body)
             key == cacheKey(op, arg)
         IN  [raised |-> FALSE, value |-> value,
              cache |-> cacheSet(c, key,
                                 IF cacheLive(c, key, t) THEN c[key].v ELSE value,
                                 ttlOf(op), t)]
    ELSE [raised |-> TRUE, error |-> resp.error, cache |-> c]

\* The part of a getter after a cache miss, when its fetch ends as `resp` at
\* time t: the value returned or the error raised, and the cache it leaves.
getterAfterFetch(c, op, arg, resp, t) ==
    IF resp.ok
    THEN LET value == fromBody(op, resp.body)
         IN  [raised |-> FALSE, value |-> value,
              cache |-> cacheSet(c, cacheKey(op, arg), value, ttlOf(op), t)]
    ELSE [raised |-> TRUE, error |-> resp.error, cache |-> c]

(***************************************************************************)
(* The resource providers and action handlers.  Each run builds its        *)
(* services with initMarketService, initPriceService or initAssetService,  *)
(* which construct a new service, and with it a new empty NodeCache, on    *)
(* every call.  A run is taken to last less than a second: its getter      *)
(* calls all see the same clock.  `failAt` is the ordinal of the request   *)
(* of the run that fails, 0 when none does.                                *)
(***************************************************************************)

\* String.prototype.toUpperCase
toUpperCaseChar(c) ==
    IF (c >= 97 /\ c <= 122) \/ (c >= 1072 /\ c <= 1103) THEN c - 32
    ELSE IF c >= 1104 /\ c <= 1119 THEN c - 80
    ELSE c

toUpperCase(s) ==
    [i \in 1..Len(s) |-> toUpperCaseChar(s[i])]

\* NaN, which equals no number; no marketId of the model is negative.
NaN == -1

\* parseInt of a string: the number its leading decimal digits spell.
RECURSIVE digitsValue(_, _)
digitsValue(s, acc) ==
    IF s = <<>> \/ s[1] < 48 \/ s[1] > 57 THEN acc
    ELSE digitsValue(Tail(s), 10 * acc + (s[1] - 48))

parseInt(s) ==
    IF s = <<>> \/ s[1] < 48 \/ s[1] > 57 THEN NaN ELSE digitsValue(s, 0)

\* array.find(pred): the first element of s whose index is in `hits`.
firstOf(s, hits) ==
    IF hits = {} THEN [found |-> FALSE]
    ELSE [found |-> TRUE, value |-> s[CHOOSE i \in hits : \A j \in hits : i <= j]]

\* array.slice(0, n): a negative n counts back from the end of the array.
slice(s, n) ==
    SubSeq(s, 1, IF n < 0 THEN (IF Len(s) + n > 0 THEN Len(s) + n ELSE 0)
                 ELSE IF n < Len(s) THEN n ELSE Len(s))

\* array.sort((a, b) => b.last24hVolume - a.last24hVolume): descending and stable.
RECURSIVE sortByVolume(_)
sortByVolume(s) ==
    IF s = <<>> THEN <<>>
    ELSE LET rest == sortByVolume(SubSeq(s, 1, Len(s) - 1))
             x == s[Len(s)]
             k == Cardinality({i \in 1..Len(rest) :
                                  rest[i].last24hVolume >= x.last24hVolume})
         IN  SubSeq(rest, 1, k) \o <<x>> \o SubSeq(rest, k + 1, Len(rest))

MutTopWithoutSort(marketsData, limit) ==
    slice(marketsData, limit)

\* getTopMarketsByVolume(limit), once getMarketsData() has returned marketsData
getTopMarketsByVolume(marketsData, limit) ==
    slice(sortByVolume(marketsData), limit)

\* String.prototype.startsWith
startsWith(s, prefix) ==
    Len(prefix) <= Len(s) /\ SubSeq(s, 1, Len(prefix)) = prefix

\* One call of a getter on a service whose cache is c, at time t.
\* The one element of a singleton: { e(x) : x \in {v} } binds x to v in e, as
\* `const x = await v` binds it in the code.
Only(S) == CHOOSE x \in S : TRUE

MutCallGetterRetries(c, op, arg, ok, ver, t) ==
    Only({
        IF got.found
        THEN [raised |-> FALSE, value |-> got.value, error |-> "none",
              cache |-> c, sent |-> <<>>]
        ELSE Only({
                [raised |-> r.raised,
                 value |-> IF r.raised THEN <<>> ELSE r.value,
                 error |-> IF r.raised THEN r.error ELSE "none",
                 cache |-> r.cache,
                 sent |-> IF ok THEN << [op |-> op, arg |-> arg, ok |-> ok] >>
                          ELSE << [op |-> op, arg |-> arg, ok |-> ok],
                                  [op |-> op, arg |-> arg, ok |-> ok] >>] :
                r \in {getterAfterFetch(
                          cacheAfterGet(c, cacheKey(op, arg), t), op, arg,
                          IF ok THEN [ok |-> TRUE, body |-> apiBody(op, arg, ver)]
                          ELSE [ok |-> FALSE, error |-> "http"],
                          t)} }) :
        got \in {cacheGet(c, cacheKey(op, arg), t)} })

callGetter(c, op, arg, ok, ver, t) ==
    Only({
        IF got.found
        THEN [raised |-> FALSE, value |-> got.value, error |-> "none",
              cache |-> c, sent |-> <<>>]
        ELSE Only({
                [raised |-> r.raised,
                 value |-> IF r.raised THEN <<>> ELSE r.value,
                 error |-> IF r.raised THEN r.error ELSE "none",
                 cache |-> r.cache,
                 sent |-> << [op |-> op, arg |-> arg, ok |-> ok] >>] :
                r \in {getterAfterFetch(
                          cacheAfterGet(c, cacheKey(op, arg), t), op, arg,
                          IF ok THEN [ok |-> TRUE, body |-> apiBody(op, arg, ver)]
                          ELSE [ok |-> FALSE, error |-> "http"],
                          t)} }) :
        got \in {cacheGet(c, cacheKey(op, arg), t)} })

\* What a provider returns from its catch block.
providerFailed(text, sent) ==
    [message |-> text, error |-> TRUE, sent |-> sent]

\* reyaMarketProvider.get: getMarkets, getMarketsData, getTopMarketsByVolume(3)
reyaMarketProviderGet(failAt, ver, t) ==
    Only({ Only({ Only({
        IF g1.raised
        THEN providerFailed("Failed to fetch market data from Reya Network", g1.sent)
        ELSE IF g2.raised
        THEN providerFailed("Failed to fetch market data from Reya Network",
                            g1.sent \o g2.sent)
        ELSE IF g3.raised
        THEN providerFailed("Failed to fetch market data from Reya Network",
                            g1.sent \o g2.sent \o g3.sent)
        ELSE [message |-> "active markets and volume leaders",
              activeMarkets |->
                Cardinality({i \in 1..Len(g1.value) : g1.value[i].isActive}),
              topMarkets |->
                [i \in 1..Len(slice(g3.value, 3)) |->
                    slice(sortByVolume(g3.value), 3)[i].marketId],
              sent |-> g1.sent \o g2.sent \o g3.sent] :
        g3 \in {callGetter(g2.cache, "getMarketsData", <<>>,
                           failAt # Len(g1.sent \o g2.sent) + 1, ver, t)} }) :
        g2 \in {callGetter(g1.cache, "getMarketsData", <<>>,
                           failAt # Len(g1.sent) + 1, ver, t)} }) :
        g1 \in {callGetter(EmptyCache, "getMarkets", <<>>, failAt # 1, ver, t)} })

\* reyaPriceProvider.get: nothing unless the text has a price keyword, then
\* getPrices and getPricesSummary
reyaPriceProviderGet(msg, failAt, ver, t) ==
    IF ~someIncluded(toLowerCase(msg.text), providerPriceKeywords)
    THEN [message |-> "", sent |-> <<>>]
    ELSE Only({ Only({
        IF g1.raised
        THEN providerFailed("Failed to fetch price data from Reya Network", g1.sent)
        ELSE IF g2.raised
        THEN providerFailed("Failed to fetch price data from Reya Network",
                            g1.sent \o g2.sent)
        ELSE [message |-> "live price data",
              totalMarkets |-> Len(g2.value),
              sent |-> g1.sent \o g2.sent] :
        g2 \in {callGetter(g1.cache, "getPrices", <<>>,
                           failAt # Len(g1.sent) + 1, ver, t)} }) :
        g1 \in {callGetter(EmptyCache, "getPrices", <<>>, failAt # 1, ver, t)} })

\* reyaAssetProvider.get: getAssets and getAssetsSummary
reyaAssetProviderGet(failAt, ver, t) ==
    Only({ Only({
        IF g1.raised
        THEN providerFailed("Failed to fetch asset data from Reya Network", g1.sent)
        ELSE IF g2.raised
        THEN providerFailed("Failed to fetch asset data from Reya Network",
                            g1.sent \o g2.sent)
        ELSE [message |-> "supported assets",
              totalAssets |-> Len(g2.value),
              sent |-> g1.sent \o g2.sent] :
        g2 \in {callGetter(g1.cache, "getAssets", <<>>,
                           failAt # Len(g1.sent) + 1, ver, t)} }) :
        g1 \in {callGetter(EmptyCache, "getAssets", <<>>, failAt # 1, ver, t)} })

\* The if / else-if chain that picks a symbol from the text: the symbol of
\* the first rule one of whose keywords the text includes, or "".
extractSymbol(text, rules) ==
    LET hits == {i \in 1..Len(rules) : someIncluded(text, rules[i].keys)}
    IN  IF hits = {} THEN <<>>
        ELSE rules[CHOOSE i \in hits : \A j \in hits : i <= j].symbol

\* error.message of what a getter, or a model call, throws.
errorMessage(e) ==
    CASE e = "http" -> "HTTP error! status: 500"
      [] e = "rejected" -> "fetch failed"
      [] e = "model" -> "model call failed"

MutRepliedTwice(result) ==
    result @@ [callbacks |-> << [text |-> result.reply], [text |-> result.reply] >>]

\* The end of a handler's try block: callback({ text: response, ... }), then
\* return { success: true, ... }.
replied(result) ==
    result @@ [callbacks |-> << [text |-> result.reply] >>]

\* The catch block of getPricesAction.handler: the apology as the text, the
\* error's message as attached content and in the returned data.
getPricesHandlerCatch(e, sent) ==
    Only({
        [success |-> FALSE, reply |-> "apology", error |-> e,
         callback |-> cb, callbacks |-> << cb >>,
         data |-> [errorDetails |-> errorMessage(e)],
         sent |-> sent] :
        cb \in {
            [text |-> "Sorry, I couldn't fetch the price data from Reya Network right now. Please try again in a moment.",
             content |-> [error |-> errorMessage(e)]]} })

\* The catch block of getAssetsAction.handler.
getAssetsHandlerCatch(e, sent) ==
    Only({
        [success |-> FALSE, reply |-> "apology", error |-> e,
         callback |-> cb, callbacks |-> << cb >>,
         sent |-> sent] :
        cb \in {
            [text |-> "Sorry, I couldn't fetch the asset data from Reya Network right now. Please try again in a moment.",
             error |-> TRUE]} })

\* The catch block of getMarketsAction.handler.
getMarketsHandlerCatch(e, sent) ==
    Only({
        [success |-> FALSE, reply |-> "apology", error |-> e,
         callback |-> cb, callbacks |-> << cb >>,
         sent |-> sent] :
        cb \in {
            [text |-> "Sorry, I couldn't fetch the market data from Reya Network right now. Please try again in a moment.",
             error |-> TRUE]} })

\* getPricesAction.handler (src/src/actions/priceAction.ts): what it passes
\* to the callback and returns, and the requests it sent.
getPricesHandler(msg, failAt, ver, t) ==
    Only({ Only({ Only({ Only({ Only({ Only({
        IF g1.raised THEN getPricesHandlerCatch(g1.error, g1.sent)
        ELSE IF g2.raised THEN getPricesHandlerCatch(g2.error, g1.sent \o g2.sent)
        ELSE IF symbol # <<>> /\ ~assetMarket.found
        THEN replied([success |-> TRUE, reply |-> "no such market", symbol |-> symbol,
              type |-> "specific_price", sent |-> g1.sent \o g2.sent])
        ELSE IF g3.raised
        THEN getPricesHandlerCatch(g3.error, g1.sent \o g2.sent \o g3.sent)
        ELSE IF symbol = <<>>
        THEN replied([success |-> TRUE, reply |-> "overview", symbol |-> symbol,
              type |-> "general_overview", totalMarkets |-> Len(g3.value),
              sent |-> g1.sent \o g2.sent \o g3.sent])
        ELSE IF assetPrice.found
        THEN replied([success |-> TRUE, reply |-> "price", symbol |-> symbol,
              type |-> "specific_price", ticker |-> assetMarket.value.ticker,
              price |-> assetPrice.value.price,
              sent |-> g1.sent \o g2.sent \o g3.sent])
        ELSE replied([success |-> TRUE, reply |-> "no price", symbol |-> symbol,
              type |-> "specific_price", ticker |-> assetMarket.value.ticker,
              sent |-> g1.sent \o g2.sent \o g3.sent]) :
        \* priceService.getPriceByMarketId(parseInt(assetMarket.id))
        assetPrice \in {
            IF assetMarket.found
            THEN firstOf(g3.value,
                    {i \in 1..Len(g3.value) :
                        g3.value[i].marketId = parseInt(assetMarket.value.id)})
            ELSE [found |-> FALSE]} }) :
        \* getPriceByMarketId and getPricesSummary both call getPrices again
        g3 \in {callGetter(g1.cache, "getPrices", <<>>,
                           failAt # Len(g1.sent \o g2.sent) + 1, ver, t)} }) :
        \* markets.find(m => m.ticker.toUpperCase().includes(assetSymbol))
        assetMarket \in {
            firstOf(g2.value,
                {i \in 1..Len(g2.value) :
                    includes(toUpperCase(g2.value[i].ticker), toUpperCase(symbol))})} }) :
        \* priceService and marketService are two new services
        g2 \in {callGetter(EmptyCache, "getMarkets", <<>>,
                           failAt # Len(g1.sent) + 1, ver, t)} }) :
        g1 \in {callGetter(EmptyCache, "getPrices", <<>>, failAt # 1, ver, t)} }) :
        symbol \in {extractSymbol(toLowerCase(msg.text), symbolRules)} })

\* getAssetsAction.handler (src/src/actions/assetAction.ts)
getAssetsHandler(msg, failAt, ver, t) ==
    Only({ Only({ Only({ Only({ Only({
        IF g1.raised THEN getAssetsHandlerCatch(g1.error, g1.sent)
        ELSE IF g2.raised THEN getAssetsHandlerCatch(g2.error, g1.sent \o g2.sent)
        ELSE IF specificAsset = <<>>
        THEN replied([success |-> TRUE, reply |-> "overview",
              totalAssets |-> Len(g2.value), sent |-> g1.sent \o g2.sent])
        ELSE IF g3.raised
        THEN getAssetsHandlerCatch(g3.error, g1.sent \o g2.sent \o g3.sent)
        ELSE IF asset.found
        THEN replied([success |-> TRUE, reply |-> "details", specificAsset |-> specificAsset,
              short |-> asset.value.short, sent |-> g1.sent \o g2.sent \o g3.sent])
        ELSE replied([success |-> TRUE, reply |-> "not supported",
              specificAsset |-> specificAsset,
              sent |-> g1.sent \o g2.sent \o g3.sent]) :
        \* assets.find(a => a.short.toLowerCase() === symbol.toLowerCase())
        asset \in {
            firstOf(g3.value,
                {i \in 1..Len(g3.value) :
                    toLowerCase(g3.value[i].short) = toLowerCase(specificAsset)})} }) :
        \* getAssetBySymbol(specificAsset)
        g3 \in {callGetter(g2.cache, "getAssets", <<>>,
                           failAt # Len(g1.sent \o g2.sent) + 1, ver, t)} }) :
        specificAsset \in {extractSymbol(toLowerCase(msg.text), assetRules)} }) :
        \* getAssetsSummary()
        g2 \in {callGetter(g1.cache, "getAssets", <<>>,
                           failAt # Len(g1.sent) + 1, ver, t)} }) :
        g1 \in {callGetter(EmptyCache, "getAssets", <<>>, failAt # 1, ver, t)} })

\* How the symbol extraction of getMarketsAction.handler can end: the model
\* call raises, or its answer is parsed into a symbol and a query type, each
\* of which may be empty.
ExtractionOutcomes ==
    {[raised |-> TRUE]}
    \cup { [raised |-> FALSE, symbol |-> s, type |-> ty] :
             s \in {<<>>, BTC, symbolRules[3].symbol, symbolRules[4].symbol},
             ty \in {"", "volume", "market"} }

\* markets.find(startsWith(assetSymbol + '-') || equal), else
\* markets.find(includes(assetSymbol))
MutFindTargetContainsFirst(markets, assetSymbol) ==
    firstOf(markets,
        {i \in 1..Len(markets) :
            includes(toUpperCase(markets[i].ticker), assetSymbol)})

findTargetMarket(markets, assetSymbol) ==
    Only({
        IF exact.found THEN exact
        ELSE firstOf(markets,
                {i \in 1..Len(markets) :
                    includes(toUpperCase(markets[i].ticker), assetSymbol)}) :
        exact \in {
            firstOf(markets,
                {i \in 1..Len(markets) :
                    \/ startsWith(toUpperCase(markets[i].ticker), assetSymbol \o <<45>>)
                    \/ toUpperCase(markets[i].ticker) = assetSymbol})} })

MutMarketDataCatchRethrows(targetMarket, marketsData, sent) ==
    getMarketsHandlerCatch("http", sent)

\* The catch block of the handler's inner try, around getMarketData: the
\* basic data of the target market, from the all-markets data.
marketDataCatch(targetMarket, marketsData, sent) ==
    replied([success |-> TRUE, reply |-> "basic data",
             ticker |-> targetMarket.ticker,
             \* marketsData.find(md => md.marketId === targetMarket.id)
             \*     ?.last24hVolume || 0
             volume |->
                Only({ IF md.found THEN md.value.last24hVolume ELSE 0 :
                       md \in {firstOf(marketsData,
                                {i \in 1..Len(marketsData) :
                                    marketsData[i].marketId = targetMarket.id})} }),
             sent |-> sent])

\* getMarketsAction.handler (src/src/actions/marketAction.ts:47-274).  The
\* model call, the parse and the fetches are in one try; only the fetch of
\* one market's data has a try of its own, which falls back to the list.
getMarketsHandler(msg, extraction, failAt, ver, t) ==
    IF extraction.raised
    THEN getMarketsHandlerCatch("model", <<>>)
    ELSE Only({ Only({ Only({ Only({ Only({ Only({ Only({
        IF g1.raised THEN getMarketsHandlerCatch(g1.error, g1.sent)
        ELSE IF g2.raised THEN getMarketsHandlerCatch(g2.error, g1.sent \o g2.sent)
        ELSE IF symbol # <<>> /\ queryType \in {"volume", "market"}
        THEN IF targetMarket.found
             THEN IF g3.raised
                  THEN marketDataCatch(targetMarket.value, g2.value,
                                       g1.sent \o g2.sent \o g3.sent)
                  ELSE replied([success |-> TRUE, reply |-> queryType,
                        ticker |-> targetMarket.value.ticker,
                        volume |-> g3.value.last24hVolume,
                        sent |-> g1.sent \o g2.sent \o g3.sent])
             ELSE replied([success |-> TRUE, reply |-> "no such market",
                   topMarkets |->
                        [i \in 1..Len(getTopMarketsByVolume(top.value, 5)) |->
                            getTopMarketsByVolume(top.value, 5)[i].marketId],
                   sent |-> g1.sent \o g2.sent \o top.sent])
        ELSE replied([success |-> TRUE, reply |-> "overview",
              activeMarkets |->
                    Cardinality({i \in 1..Len(g1.value) : g1.value[i].isActive}),
              topMarkets |->
                    [i \in 1..Len(getTopMarketsByVolume(top.value, 8)) |->
                        getTopMarketsByVolume(top.value, 8)[i].marketId],
              sent |-> g1.sent \o g2.sent \o top.sent]) :
        \* getTopMarketsByVolume calls getMarketsData on the same service
        top \in {callGetter(g2.cache, "getMarketsData", <<>>,
                            failAt # Len(g1.sent \o g2.sent) + 1, ver, t)} }) :
        \* marketService.getMarketData(targetMarket.id)
        g3 \in {IF targetMarket.found
                THEN callGetter(g2.cache, "getMarketData", targetMarket.value.id,
                                failAt # Len(g1.sent \o g2.sent) + 1, ver, t)
                ELSE [raised |-> FALSE, sent |-> <<>>]} }) :
        targetMarket \in {findTargetMarket(g1.value, toUpperCase(symbol))} }) :
        g2 \in {callGetter(g1.cache, "getMarketsData", <<>>,
                           failAt # Len(g1.sent) + 1, ver, t)} }) :
        g1 \in {callGetter(EmptyCache, "getMarkets", <<>>, failAt # 1, ver, t)} }) :
        \* extractedData.type || "general"
        queryType \in {IF extraction.type = "" THEN "general" ELSE extraction.type} }) :
        \* extractedData.symbol || ""
        symbol \in {extraction.symbol} })

(***************************************************************************)
(* IntentDispatcher (src/src/services/intentDispatcher.ts).  A result is   *)
(* what the method returns, with the invocations of the reply callback it  *)
(* made and the requests it sent.                                          *)
(***************************************************************************)

\* String(n), n a natural number
RECURSIVE String(_)
String(n) ==
    IF n < 10 THEN <<48 + n>> ELSE String(n \div 10) \o <<48 + (n % 10)>>

MutAnsweredProceeds(response, usedSource, hasCallback, sent) ==
    [shouldProceed |-> TRUE, response |-> response, usedSource |-> usedSource,
     callbacks |-> IF hasCallback THEN << [text |-> response] >> ELSE <<>>,
     sent |-> sent]

\* if (callback) { callback({ text: response }) }, then the return
answered(response, usedSource, hasCallback, sent) ==
    [shouldProceed |-> FALSE, response |-> response, usedSource |-> usedSource,
     callbacks |-> IF hasCallback THEN << [text |-> response] >> ELSE <<>>,
     sent |-> sent]

MutApiErrorBlocks(sent) ==
    [shouldProceed |-> FALSE, usedSource |-> SRC_api_error, callbacks |-> <<>>,
     sent |-> sent]

\* The catch block of handlePriceQuery, handleMarketQuery, handleAssetQuery
apiError(sent) ==
    [shouldProceed |-> TRUE, usedSource |-> SRC_api_error, callbacks |-> <<>>,
     sent |-> sent]

handleKnowledgeQuery ==
    [shouldProceed |-> FALSE, usedSource |-> SRC_knowledge_base,
     callbacks |-> <<>>, sent |-> <<>>]

\* analysis.extractedEntities?.assets || []
assetsOf(analysis) ==
    IF has(analysis, "extractedEntities") /\ has(analysis.extractedEntities, "assets")
    THEN analysis.extractedEntities.assets
    ELSE <<>>

handlePriceQuery(analysis, failAt, ver, t, hasCallback) ==
    Only({ Only({ Only({
        IF g1.raised THEN apiError(g1.sent)
        ELSE IF assetPrice.found
        THEN answered("asset price", SRC_reya_api_price, hasCallback, g1.sent)
        ELSE IF g2.raised THEN apiError(g1.sent \o g2.sent)
        ELSE answered("price overview", SRC_reya_api_price, hasCallback,
                      g1.sent \o g2.sent) :
        \* priceService.getPricesSummary() calls getPrices on the same service
        g2 \in {callGetter(g1.cache, "getPrices", <<>>,
                           failAt # Len(g1.sent) + 1, ver, t)} }) :
        \* prices.find(p => String(p.marketId).includes(assetSymbol) ||
        \*                  p.assetPairId?.includes(assetSymbol))
        assetPrice \in {
            IF g1.raised \/ assetsOf(analysis) = <<>>
            THEN [found |-> FALSE]
            ELSE firstOf(g1.value,
                    {i \in 1..Len(g1.value) :
                        \/ includes(String(g1.value[i].marketId),
                                    toUpperCase(assetsOf(analysis)[1]))
                        \/ includes(g1.value[i].assetPairId,
                                    toUpperCase(assetsOf(analysis)[1]))})} }) :
        g1 \in {callGetter(EmptyCache, "getPrices", <<>>, failAt # 1, ver, t)} })

handleMarketQuery(analysis, failAt, ver, t, hasCallback) ==
    Only({ Only({
        IF g1.raised THEN apiError(g1.sent)
        ELSE IF g2.raised THEN apiError(g1.sent \o g2.sent)
        ELSE answered("markets", SRC_reya_api_market, hasCallback,
                      g1.sent \o g2.sent) :
        g2 \in {callGetter(g1.cache, "getMarketsData", <<>>,
                           failAt # Len(g1.sent) + 1, ver, t)} }) :
        g1 \in {callGetter(EmptyCache, "getMarkets", <<>>, failAt # 1, ver, t)} })

handleAssetQuery(analysis, failAt, ver, t, hasCallback) ==
    Only({
        IF g1.raised THEN apiError(g1.sent)
        ELSE answered("assets", SRC_reya_api_asset, hasCallback, g1.sent) :
        g1 \in {callGetter(EmptyCache, "getAssets", <<>>, failAt # 1, ver, t)} })

handleComparisonQuery ==
    [shouldProceed |-> TRUE, usedSource |-> SRC_comparison_hybrid,
     callbacks |-> <<>>, sent |-> <<>>]

handleHistoricalQuery ==
    [shouldProceed |-> TRUE, usedSource |-> SRC_historical_data,
     callbacks |-> <<>>, sent |-> <<>>]

\* routeRequest: the switch over analysis.intent
routeRequest(analysis, failAt, ver, t, hasCallback) ==
    CASE analysis.intent = KNOWLEDGE_QUERY -> handleKnowledgeQuery
      [] analysis.intent = PRICE_QUERY ->
            handlePriceQuery(analysis, failAt, ver, t, hasCallback)
      [] analysis.intent = MARKET_QUERY ->
            handleMarketQuery(analysis, failAt, ver, t, hasCallback)
      [] analysis.intent = ASSET_QUERY ->
            handleAssetQuery(analysis, failAt, ver, t, hasCallback)
      [] analysis.intent = COMPARISON_QUERY -> handleComparisonQuery
      [] analysis.intent = HISTORICAL_DATA_QUERY -> handleHistoricalQuery
      [] OTHER ->
            [shouldProceed |-> TRUE, usedSource |-> SRC_general_chat,
             callbacks |-> <<>>, sent |-> <<>>]

\* dispatch: analyzeIntent, then routeRequest; its catch returns "fallback".
dispatch(analysis, failAt, ver, t, hasCallback) ==
    IF analysis.raised
    THEN [raised |-> FALSE, shouldProceed |-> TRUE, usedSource |-> SRC_fallback,
          callbacks |-> <<>>, sent |-> <<>>]
    ELSE [raised |-> FALSE] @@ routeRequest(analysis.value, failAt, ver, t, hasCallback)

\* What dispatch returned, as the action passes it on: { shouldProceed,
\* response?, usedSource }
dispatchResultOf(result) ==
    [f \in DOMAIN result \ {"raised", "callbacks", "sent"} |-> result[f]]

\* smartDispatchAction.handler (src/src/actions/assetAction.ts:198-290), once
\* dispatcher.dispatch has ended as `result`
smartDispatchHandler(result) ==
    IF result.raised
    THEN [success |-> FALSE,
          data |-> [actionName |-> SMART_REYA_DISPATCH, errorDetails |-> TRUE]]
    ELSE IF has(result, "response")
    THEN [success |-> TRUE, text |-> result.response,
          data |-> [actionName |-> SMART_REYA_DISPATCH,
                    source |-> result.usedSource,
                    dispatchResult |-> dispatchResultOf(result)]]
    ELSE IF ~result.shouldProceed
    THEN [success |-> TRUE, text |-> "",
          data |-> [actionName |-> SMART_REYA_DISPATCH,
                    source |-> result.usedSource,
                    blockOtherActions |-> TRUE]]
    ELSE [success |-> TRUE, text |-> "",
          data |-> [actionName |-> SMART_REYA_DISPATCH,
                    source |-> result.usedSource,
                    allowReyaActions |-> TRUE]]


(***************************************************************************)
(* Spec: one turn after another through the gate and the validate checks.  *)
(***************************************************************************)

NothingProvided == [p \in {} |-> TRUE]
NoReplies == [a \in {} |-> TRUE]

\* The requests a run sent, as the turn records them: who sent each, for
\* which cache key, and the last successful load of that key in an earlier
\* turn.
requestsOf(by, sent) ==
    { [by |-> by, op |-> sent[i].op, arg |-> sent[i].arg,
       key |-> cacheKey(sent[i].op, sent[i].arg), ok |-> sent[i].ok, at |-> now,
       prior |-> IF cacheKey(sent[i].op, sent[i].arg) \in DOMAIN loads
                 THEN loads[cacheKey(sent[i].op, sent[i].arg)]
                 ELSE [loaded |-> FALSE]] : i \in 1..Len(sent) }

\* The last successful loads, once the turn's own are counted.
loadsAfterTurn ==
    LET okReqs == {r \in requests : r.ok}
        loaded == {r.key : r \in okReqs}
    IN  [k \in DOMAIN loads \cup loaded |->
            IF k \in loaded
            THEN LET r == CHOOSE q \in okReqs : q.key = k
                 IN  [loaded |-> TRUE, at |-> r.at,
                      value |-> fromBody(r.op, apiBody(r.op, r.arg, remoteVer))]
            ELSE loads[k]]

NoAnalysis == [path |-> "none"]
NoResult == [ran |-> FALSE]
NoValidation == [a \in {} |-> FALSE]

InitGate ==
    /\ phase = "idle"
    /\ message = [text |-> <<>>]
    /\ state = [values |-> EmptyObject, recentActions |-> <<>>]
    /\ providerResult = NoResult
    /\ analysisLog = NoAnalysis
    /\ validateResult = NoValidation

\* A message arrives; the runtime starts the turn's state.
ReceiveMessage ==
    /\ phase = "idle"
    /\ \E t \in Texts, ra \in RecentActionsChoices :
        /\ message' = [text |-> t]
        /\ state' = [values |-> EmptyObject, recentActions |-> ra]
    /\ phase' = "compose"
    /\ providerResult' = NoResult
    /\ analysisLog' = NoAnalysis
    /\ validateResult' = NoValidation
    /\ UNCHANGED <<config, cacheVars, turnVars>>

\* The runtime calls smartDispatchProvider.get and merges the values it
\* returns into the state.
SmartDispatchProvider ==
    /\ phase = "compose"
    /\ \E outcome \in ModelOutcomes :
        LET analysis == analyzeIntent(message, outcome)
            result == smartDispatchProviderGet(analysis, 0)
        IN  /\ analysisLog' = [path |-> analysis.path, outcome |-> outcome,
                               result |-> analysis]
            /\ providerResult' = [ran |-> TRUE, result |-> result]
            /\ state' = [state EXCEPT !.values = result.values]
    /\ phase' = "validate_markets"
    /\ UNCHANGED <<config, message, validateResult, cacheVars, turnVars>>

\* The runtime composes the state without the provider, which is declared
\* private: no smartDispatch value is published.
ComposeWithoutGate ==
    /\ phase = "compose"
    /\ phase' = "validate_markets"
    /\ UNCHANGED <<config, message, state, providerResult, analysisLog, validateResult, cacheVars, turnVars>>

ValidateMarkets ==
    /\ phase = "validate_markets"
    /\ validateResult' = validateResult @@ ("GET_REYA_MARKETS" :> getMarketsValidate(message))
    /\ phase' = "validate_prices"
    /\ UNCHANGED <<config, message, state, providerResult, analysisLog, cacheVars, turnVars>>

ValidatePrices ==
    /\ phase = "validate_prices"
    /\ validateResult' = validateResult @@ ("GET_REYA_PRICES" :> getPricesValidate(message, state))
    /\ phase' = "validate_assets"
    /\ UNCHANGED <<config, message, state, providerResult, analysisLog, cacheVars, turnVars>>

ValidateAssets ==
    /\ phase = "validate_assets"
    /\ validateResult' = validateResult @@ ("GET_REYA_ASSETS" :> getAssetsValidate(message, state))
    /\ phase' = "done"
    /\ UNCHANGED <<config, message, state, providerResult, analysisLog, cacheVars, turnVars>>

\* The turn's state is discarded with the turn.
EndTurn ==
    /\ phase = "done"
    /\ phase' = "idle"
    /\ message' = [text |-> <<>>]
    /\ state' = [values |-> EmptyObject, recentActions |-> <<>>]
    /\ providerResult' = NoResult
    /\ analysisLog' = NoAnalysis
    /\ validateResult' = NoValidation
    /\ loads' = loadsAfterTurn
    /\ requests' = {}
    /\ provided' = NothingProvided
    /\ replies' = NoReplies
    /\ UNCHANGED <<config, now, remoteVer, cache, inflight, lastCall, failedEmpty,
                   nCalls, nTicks, nTurns>>

NoCall == [done |-> FALSE]
NoLoad == [loaded |-> FALSE]

\* Each service is constructed with an empty cache.
InitCache ==
    /\ now = 0
    /\ remoteVer = 1
    /\ cache = [s \in Services |-> EmptyCache]
    /\ inflight = <<>>
    /\ lastCall = NoCall
    /\ loads = [k \in {} |-> NoLoad]
    /\ failedEmpty = {}
    /\ nCalls = 0
    /\ nTicks = 0

InitTurn ==
    /\ requests = {}
    /\ provided = NothingProvided
    /\ replies = NoReplies
    /\ nTurns = 0

(***************************************************************************)
(* Configuration (src/src/environment.ts).                                 *)
(***************************************************************************)

\* src/src/constants/index.ts:1
REYA_API_BASE_URL == "https://api.reya.xyz"

\* What runtime.getSetting("REYA_API_BASE_URL") can return: nothing, another
\* endpoint, a text that is no URL, and a scheme without a host.
Settings == {"", "https://staging.reya.example", "reya", "http://"}

\* new URL(u) does not throw.
wellFormedUrl(u) ==
    u \in {"https://api.reya.xyz", "https://staging.reya.example"}

\* new URL(u + path) does not throw, for a path that begins with a slash:
\* after "http:" the parser skips every slash before the host, so that
\* "http:///api/trading/markets" is a URL of the host "api".
fetchUrlParses(u) ==
    wellFormedUrl(u) \/ u = "http://"

\* getReyaConfig(runtime).REYA_API_BASE_URL
getReyaConfig(setting) ==
    IF setting = "" THEN REYA_API_BASE_URL ELSE setting

\* validateReyaConfig(runtime): raises unless the base URL is well formed.
validateReyaConfig(setting) ==
    [raised |-> ~wellFormedUrl(getReyaConfig(setting))]

\* The plugin is loaded with the default endpoint.
InitConfig ==
    config = [setting |-> "", loaded |-> TRUE]

Init == InitGate /\ InitCache /\ InitTurn /\ InitConfig

Next ==
    \/ ReceiveMessage
    \/ SmartDispatchProvider
    \/ ComposeWithoutGate
    \/ ValidateMarkets
    \/ ValidatePrices
    \/ ValidateAssets
    \/ EndTurn

Spec == Init /\ [][Next]_vars

(***************************************************************************)
(* Claims checked under Spec.                                              *)
(***************************************************************************)

published == has(state.values, "smartDispatch")

analysed == analysisLog.path # "none"

\* C1: whenever the turn's state holds dispatch flags with allowReyaActions
\* false, the validate of each of GET_REYA_PRICES, GET_REYA_MARKETS and
\* GET_REYA_ASSETS returns false, whatever the message text.
C1_BlockedActionsDecline ==
    (published /\ ~state.values.smartDispatch.allowReyaActions)
        => \A a \in DOMAIN validateResult : ~validateResult[a]

\* C2: whenever the turn's state holds no dispatch flags, the validate of each
\* of the three resource actions returns false, whatever the message text and
\* the rest of the state.
C2_NoFlagsDecline ==
    ~published => \A a \in DOMAIN validateResult : ~validateResult[a]

C6_Row(intent) ==
    CASE intent = KNOWLEDGE_QUERY -> <<FALSE, TRUE, SRC_knowledge_base>>
      [] intent = PRICE_QUERY -> <<TRUE, FALSE, SRC_reya_api>>
      [] intent = MARKET_QUERY -> <<TRUE, FALSE, SRC_reya_api>>
      [] intent = ASSET_QUERY -> <<TRUE, FALSE, SRC_reya_api>>
      [] intent = COMPARISON_QUERY -> <<FALSE, FALSE, LIT_comparison_query>>
      [] intent = HISTORICAL_DATA_QUERY -> <<FALSE, FALSE, LIT_historical_data_query>>
      [] intent = GENERAL_CHAT -> <<FALSE, FALSE, LIT_general_chat>>
      [] intent = LIVE_DATA_QUERY -> <<FALSE, FALSE, LIT_live_data_query>>
      [] intent = OTHER_INTENT -> <<FALSE, FALSE, LIT_staking_query>>

\* C6: every record the gate publishes carries the flags of the routing table:
\* KNOWLEDGE_QUERY gives allow=false, block=true, "knowledge_base"; PRICE_QUERY,
\* MARKET_QUERY and ASSET_QUERY give allow=true, block=false, "reya_api"; every
\* other intent gives allow=false, block=false and the intent in lower case.
C6_RoutingTable ==
    published =>
        LET sd == state.values.smartDispatch
        IN  /\ sd.intent = analysisLog.result.value.intent
            /\ <<sd.allowReyaActions, sd.blockOtherActions, sd.usedSource>>
                  = C6_Row(sd.intent)

C6_Witness ==
    /\ phase = "done"
    /\ published
    /\ state.values.smartDispatch.intent = OTHER_INTENT
    /\ state.values.smartDispatch.usedSource = LIT_staking_query

\* C7: for each of the eight values of IntentType that the classifier returns,
\* the gate publishes a smartDispatch record with boolean allowReyaActions and
\* blockOtherActions and a string usedSource; none ends in the error path.
C7_GateTotal ==
    (providerResult.ran /\ analysisLog.result.value.intent \in IntentType) =>
        /\ has(providerResult.result.values, "smartDispatch")
        /\ ~has(providerResult.result.data, "smartDispatchError")
        /\ LET sd == providerResult.result.values.smartDispatch
           IN  /\ sd.allowReyaActions \in BOOLEAN
               /\ sd.blockOtherActions \in BOOLEAN
               /\ sd.usedSource \in Seq(0..1200)
               /\ sd.usedSource # undefined

C7_Witness ==
    /\ providerResult.ran
    /\ analysisLog.result.value.intent = LIVE_DATA_QUERY
    /\ has(providerResult.result.values, "smartDispatch")
    /\ providerResult.result.values.smartDispatch.usedSource = LIT_live_data_query

C9_PriceOnly(text) ==
    /\ includes(toLowerCase(text), LIT_price)
    /\ ~someIncluded(toLowerCase(text), knowledgeMarkers)

\* C9: when the model call fails, a message whose lower-cased text contains
\* "price" and no knowledge marker is classified PRICE_QUERY with
\* shouldUseAPI true and shouldUseKnowledge false, on every call.
C9_FallbackPrice ==
    (analysed /\ analysisLog.outcome.raised /\ C9_PriceOnly(message.text)) =>
        /\ ~analysisLog.result.raised
        /\ analysisLog.result.value.intent = PRICE_QUERY
        /\ analysisLog.result.value.shouldUseAPI = "true"
        /\ analysisLog.result.value.shouldUseKnowledge = "false"

C9_Witness ==
    /\ analysed
    /\ analysisLog.outcome.raised
    /\ message.text = TXT_BTC_Price
    /\ analysisLog.result.value.intent = PRICE_QUERY

C10_Unusable(outcome) ==
    outcome.raised \/ outcome.body.json = "invalid"

C10_FallbackRows ==
    { <<KNOWLEDGE_QUERY, 70, "false", "true">>,
      <<PRICE_QUERY, 70, "true", "false">>,
      <<GENERAL_CHAT, 50, "false", "false">> }

\* C10: analyzeIntent never raises, and whenever the model call fails or its
\* output is not JSON the analysis is the keyword fallback's: KNOWLEDGE_QUERY
\* at 0.7 with knowledge only, PRICE_QUERY at 0.7 with API only, or
\* GENERAL_CHAT at 0.5 with neither.
C10_ErrorsRecovered ==
    analysed =>
        /\ ~analysisLog.result.raised
        /\ C10_Unusable(analysisLog.outcome) =>
            /\ analysisLog.path = "fallback"
            /\ LET v == analysisLog.result.value
               IN  <<v.intent, v.confidence, v.shouldUseAPI, v.shouldUseKnowledge>>
                      \in C10_FallbackRows

C10_Witness ==
    /\ analysed
    /\ ~analysisLog.outcome.raised
    /\ analysisLog.outcome.fenced
    /\ analysisLog.outcome.body.json = "invalid"
    /\ analysisLog.path = "fallback"
    /\ analysisLog.result.value.intent = GENERAL_CHAT
    /\ analysisLog.result.value.confidence = 50

\* C11: whatever the model returns, the analysis that analyzeIntent hands to
\* the gate has an intent of the enumeration, a confidence between 0 and 1
\* (0 and 100 hundredths) and boolean shouldUseAPI and shouldUseKnowledge.
C11_ValidAnalysis ==
    analysed =>
        /\ ~analysisLog.result.raised
        /\ LET v == analysisLog.result.value
           IN  /\ v.intent \in IntentType
               /\ v.confidence \in 0..100
               /\ v.shouldUseAPI \in {"true", "false"}
               /\ v.shouldUseKnowledge \in {"true", "false"}

\* The pair (shouldUseAPI, shouldUseKnowledge) of each intent, as the prompt's
\* guidelines and the keyword fallback give it.
C12_Table(intent) ==
    CASE intent = KNOWLEDGE_QUERY -> <<"false", "true">>
      [] intent \in {PRICE_QUERY, MARKET_QUERY, ASSET_QUERY} -> <<"true", "false">>
      [] intent = COMPARISON_QUERY -> <<"true", "true">>
      [] intent = GENERAL_CHAT -> <<"false", "false">>

\* C12: in every analysis that analyzeIntent returns, by the model path or by
\* the keyword fallback, shouldUseAPI and shouldUseKnowledge are the table's
\* pair for the returned intent.
C12_FlagsFollowIntent ==
    (analysed /\ ~analysisLog.result.raised
        /\ analysisLog.result.value.intent \in
                {KNOWLEDGE_QUERY, PRICE_QUERY, MARKET_QUERY, ASSET_QUERY,
                 COMPARISON_QUERY, GENERAL_CHAT}) =>
        LET v == analysisLog.result.value
        IN  <<v.shouldUseAPI, v.shouldUseKnowledge>> = C12_Table(v.intent)

\* C24: when the state holds a smartDispatch record published by the gate
\* provider with allowReyaActions = false, the asset action's validate returns
\* false even if the recent actions hold a SMART_REYA_DISPATCH result whose
\* data has allowReyaActions = true; the recent-action record is consulted
\* only when no provider record exists.
C24_ProviderPrecedence ==
    (published /\ "GET_REYA_ASSETS" \in DOMAIN validateResult) =>
        /\ ~approved(state.values.smartDispatch) =>
                ~validateResult["GET_REYA_ASSETS"]
        /\ validateResult["GET_REYA_ASSETS"] =
                getAssetsValidate(message, [values |-> state.values])

\* The provider published allowReyaActions = false, the recent actions hold a
\* dispatch result that allows, the text names an asset keyword, and the
\* validate returned false.
C24_Witness ==
    /\ published
    /\ ~approved(state.values.smartDispatch)
    /\ approved(recentDispatchData(state))
    /\ getAssetsValidate(message, [values |-> EmptyObject,
                                   recentActions |-> state.recentActions])
    /\ "GET_REYA_ASSETS" \in DOMAIN validateResult
    /\ ~validateResult["GET_REYA_ASSETS"]

C29_Knowledge(text) == someIncluded(toLowerCase(text), knowledgeMarkers)

C29_Price(text) == someIncluded(toLowerCase(text), priceMarkers)

C29_MarketOrAsset(text) ==
    \/ someIncluded(toLowerCase(text), marketKeywords)
    \/ someIncluded(toLowerCase(text), assetKeywords)

\* C29: when the model call fails, a message with a knowledge marker is
\* classified KNOWLEDGE_QUERY with shouldUseAPI false, also when it has a
\* price marker too; a message with neither kind of marker is classified
\* GENERAL_CHAT, also when it has market or asset keywords.
C29_FallbackPrecedence ==
    (analysed /\ analysisLog.outcome.raised) =>
        /\ ~analysisLog.result.raised
        /\ C29_Knowledge(message.text) =>
                /\ analysisLog.result.value.intent = KNOWLEDGE_QUERY
                /\ analysisLog.result.value.shouldUseAPI = "false"
        /\ (~C29_Knowledge(message.text) /\ ~C29_Price(message.text)) =>
                analysisLog.result.value.intent = GENERAL_CHAT

\* A message with both markers, classified by the fallback.
C29_Witness ==
    /\ analysed
    /\ analysisLog.outcome.raised
    /\ message.text = TXT_what_is_btc_price
    /\ C29_Knowledge(message.text)
    /\ C29_Price(message.text)
    /\ analysisLog.result.value.intent = KNOWLEDGE_QUERY

\* A message with market or asset keywords and no marker, classified by the
\* fallback.
C29_WitnessKeywords ==
    /\ analysed
    /\ analysisLog.outcome.raised
    /\ C29_MarketOrAsset(message.text)
    /\ ~C29_Knowledge(message.text)
    /\ ~C29_Price(message.text)
    /\ analysisLog.result.value.intent = GENERAL_CHAT

(***************************************************************************)
(* SpecCache: the getters of one instance of each service, called at any   *)
(* time and in any overlap, against a clock and a remote API whose data    *)
(* changes and whose requests can fail.                                    *)
(***************************************************************************)

MaxCalls == 2
MaxInflight == 2
MaxTicks == 2
MaxVersions == 2

\* The clock's steps, in seconds: one second and each configured TTL.
TimeSteps == {1, 10, 30, 300, 1800}

liveEntry(c, key, t) ==
    IF cacheLive(c, key, t) THEN [live |-> TRUE, entry |-> c[key]] ELSE [live |-> FALSE]

priorLoad(key) ==
    IF key \in DOMAIN loads THEN loads[key] ELSE NoLoad

\* What a call knows when it starts.
callRecord(call) ==
    [op |-> call.op, arg |-> call.arg, key |-> cacheKey(call.op, call.arg),
     startedAt |-> now, prior |-> priorLoad(cacheKey(call.op, call.arg)),
     afterFailure |-> cacheKey(call.op, call.arg) \in failedEmpty]

removeAt(s, i) ==
    [j \in 1..(Len(s) - 1) |-> IF j < i THEN s[j] ELSE s[j + 1]]

\* A getter finds its key in the cache and returns the cached value.
GetterHit ==
    /\ nCalls < MaxCalls
    /\ \E call \in GetterCalls :
        LET svc == serviceOf(call.op)
            got == cacheGet(cache[svc], cacheKey(call.op, call.arg), now)
        IN  /\ got.found
            /\ lastCall' = callRecord(call) @@
                    [done |-> TRUE, finishedAt |-> now, requests |-> 0,
                     outcome |-> "returned", value |-> got.value]
    /\ nCalls' = nCalls + 1
    /\ UNCHANGED <<config, now, remoteVer, cache, inflight, loads, failedEmpty, nTicks, gateVars, turnVars>>

\* A getter misses the cache and sends its request.
GetterMiss ==
    /\ nCalls < MaxCalls
    /\ Len(inflight) < MaxInflight
    /\ \E call \in GetterCalls :
        LET svc == serviceOf(call.op)
            key == cacheKey(call.op, call.arg)
        IN  /\ ~cacheGet(cache[svc], key, now).found
            /\ cache' = [cache EXCEPT ![svc] = cacheAfterGet(@, key, now)]
            /\ inflight' = Append(inflight, callRecord(call))
    /\ nCalls' = nCalls + 1
    /\ UNCHANGED <<config, now, remoteVer, lastCall, loads, failedEmpty, nTicks, gateVars, turnVars>>

\* The request of a waiting call is answered with the endpoint's body; the
\* getter stores the value and returns it.
FetchSucceeds ==
    /\ \E i \in 1..Len(inflight) :
        LET call == inflight[i]
            svc == serviceOf(call.op)
            resp == [ok |-> TRUE, body |-> apiBody(call.op, call.arg, remoteVer)]
            r == getterAfterFetch(cache[svc], call.op, call.arg, resp, now)
        IN  /\ cache' = [cache EXCEPT ![svc] = r.cache]
            /\ lastCall' = call @@
                    [done |-> TRUE, finishedAt |-> now, requests |-> 1,
                     outcome |-> IF r.raised THEN "raised" ELSE "returned",
                     value |-> r.value,
                     liveBefore |-> liveEntry(cache[svc], call.key, now),
                     liveAfter |-> liveEntry(r.cache, call.key, now)]
            /\ loads' = (call.key :> [loaded |-> TRUE, at |-> now, value |-> r.value])
                            @@ loads
            /\ failedEmpty' = failedEmpty \ {call.key}
            /\ inflight' = removeAt(inflight, i)
    /\ UNCHANGED <<config, now, remoteVer, nCalls, nTicks, gateVars, turnVars>>

\* The request of a waiting call fails; the getter throws.
FetchFails ==
    /\ \E i \in 1..Len(inflight), e \in FetchErrors :
        LET call == inflight[i]
            svc == serviceOf(call.op)
            resp == [ok |-> FALSE, error |-> e]
            r == getterAfterFetch(cache[svc], call.op, call.arg, resp, now)
        IN  /\ cache' = [cache EXCEPT ![svc] = r.cache]
            /\ lastCall' = call @@
                    [done |-> TRUE, finishedAt |-> now, requests |-> 1,
                     outcome |-> IF r.raised THEN "raised" ELSE "returned",
                     error |-> e,
                     liveBefore |-> liveEntry(cache[svc], call.key, now),
                     liveAfter |-> liveEntry(r.cache, call.key, now)]
            /\ failedEmpty' =
                    IF cacheLive(cache[svc], call.key, now)
                    THEN failedEmpty \ {call.key}
                    ELSE failedEmpty \cup {call.key}
            /\ inflight' = removeAt(inflight, i)
    /\ UNCHANGED <<config, now, remoteVer, loads, nCalls, nTicks, gateVars, turnVars>>

\* Time passes.
Tick ==
    /\ nTicks < MaxTicks
    /\ \E d \in TimeSteps : now' = now + d
    /\ nTicks' = nTicks + 1
    /\ UNCHANGED <<config, remoteVer, cache, inflight, lastCall, loads, failedEmpty, nCalls, gateVars, turnVars>>

\* The exchange's data changes.
RemoteUpdate ==
    /\ remoteVer < MaxVersions
    /\ remoteVer' = remoteVer + 1
    /\ UNCHANGED <<config, now, cache, inflight, lastCall, loads, failedEmpty, nCalls, nTicks, gateVars, turnVars>>

NextCache ==
    \/ GetterHit
    \/ GetterMiss
    \/ FetchSucceeds
    \/ FetchFails
    \/ Tick
    \/ RemoteUpdate

SpecCache == Init /\ [][NextCache]_vars

(***************************************************************************)
(* Claims checked under SpecCache.                                         *)
(***************************************************************************)

\* The TTL of each getter's resource, as configured.
C3_TTL(op) ==
    CASE op = "getMarkets" -> 300
      [] op \in {"getMarketsData", "getMarketData"} -> 30
      [] op \in {"getPrices", "getPrice"} -> 10
      [] op = "getAssets" -> 1800

C3_Within(call) ==
    call.prior.loaded /\ call.startedAt - call.prior.at <= C3_TTL(call.op)

C3_Beyond(call) ==
    call.prior.loaded /\ call.startedAt - call.prior.at > C3_TTL(call.op)

\* C3: on one service instance, a call of a getter made within T seconds of
\* the last successful load of its resource sends no request and returns the
\* value of that load; a call made more than T seconds after it sends exactly
\* one request and, when the request succeeds, stores the new value for
\* another T seconds.
C3_CacheFreshness ==
    /\ \A i \in 1..Len(inflight) : ~C3_Within(inflight[i])
    /\ (lastCall.done /\ C3_Within(lastCall)) =>
            /\ lastCall.requests = 0
            /\ lastCall.outcome = "returned"
            /\ lastCall.value = lastCall.prior.value
    /\ (lastCall.done /\ C3_Beyond(lastCall)) =>
            /\ lastCall.requests = 1
            /\ lastCall.outcome = "returned" =>
                    /\ lastCall.liveAfter.live
                    /\ lastCall.liveAfter.entry =
                            [v |-> lastCall.value,
                             t |-> lastCall.finishedAt + C3_TTL(lastCall.op)]

\* A call made exactly T seconds after the load is served the loaded value,
\* which the remote API no longer serves.
C3_Witness ==
    /\ lastCall.done
    /\ lastCall.op = "getPrices"
    /\ lastCall.prior.loaded
    /\ lastCall.startedAt - lastCall.prior.at = 10
    /\ lastCall.requests = 0
    /\ lastCall.value = lastCall.prior.value
    /\ lastCall.value # fromBody("getPrices", apiBody("getPrices", <<>>, remoteVer))

\* The other half of the case: a call one second later has gone to the network.
C3_WitnessExpired ==
    /\ lastCall.done
    /\ lastCall.op = "getMarketsData"
    /\ lastCall.prior.loaded
    /\ lastCall.startedAt - lastCall.prior.at = 31
    /\ lastCall.requests = 1
    /\ lastCall.outcome = "returned"
    /\ lastCall.value # lastCall.prior.value

\* C4: a getter whose fetch fails raises to its caller after one request and
\* writes nothing to the cache: the entry of its key is, after the failing
\* call, what it was before it; and a call that follows a failure which left
\* no live entry sends a request again.
C4_NoPoisoning ==
    /\ (lastCall.done /\ lastCall.requests = 1 /\ "error" \in DOMAIN lastCall) =>
            /\ lastCall.outcome = "raised"
            /\ lastCall.liveAfter = lastCall.liveBefore
    /\ (lastCall.done /\ lastCall.afterFailure) => lastCall.requests = 1

\* A call fails, and the call that retries it has sent a request and failed too.
C4_Witness ==
    /\ lastCall.done
    /\ lastCall.afterFailure
    /\ lastCall.op = "getMarketData"
    /\ lastCall.outcome = "raised"
    /\ lastCall.error = "http"
    /\ ~lastCall.liveAfter.live

\* Identifiers chosen to resemble the other keys' endings: none, "s",
\* "s-data", "-data", "data-1", next to the identifiers the API serves.
C14_Ids ==
    MarketIds \cup PairIds \cup
    { <<>>,
      SubSeq(KEY_reya_prices, 11, 11),
      SubSeq(KEY_reya_markets_data, 12, 17),
      SubSeq(KEY_reya_markets_data, 13, 17),
      SubSeq(KEY_reya_market_data_, 13, 17) \o ID_1,
      KEY_reya_assets }

C14_Calls ==
    GetterCalls
    \cup { [op |-> "getMarketData", arg |-> i] : i \in C14_Ids }
    \cup { [op |-> "getPrice", arg |-> i] : i \in C14_Ids }

\* The values the API serves for a getter and its identifier.
C14_ValuesOf(call) ==
    { fromBody(call.op, apiBody(call.op, call.arg, v)) : v \in 1..MaxVersions }

C14_KeysDistinct ==
    \A c1, c2 \in C14_Calls :
        c1 # c2 => cacheKey(c1.op, c1.arg) # cacheKey(c2.op, c2.arg)

\* C14: the cache keys of two different resources, or of one resource for two
\* different identifiers, are different; every value a getter returns, and
\* every value stored under a key, is a value of that getter's own resource
\* and identifier.
C14_Isolation ==
    /\ C14_KeysDistinct
    /\ (lastCall.done /\ lastCall.outcome = "returned") =>
            lastCall.value \in C14_ValuesOf(lastCall)
    /\ \A s \in Services : \A k \in DOMAIN cache[s] :
            \E call \in GetterCalls :
                /\ serviceOf(call.op) = s
                /\ cacheKey(call.op, call.arg) = k
                /\ cache[s][k].v \in C14_ValuesOf(call)

\* The data of market 2 is asked for while the data of market 1 is in the
\* same cache: the call goes to the network and returns market 2's data.
C14_Witness ==
    /\ lastCall.done
    /\ lastCall.op = "getMarketData"
    /\ lastCall.arg = ID_2
    /\ lastCall.requests = 1
    /\ lastCall.outcome = "returned"
    /\ lastCall.value.marketId = ID_2
    /\ cacheLive(cache["ReyaMarketService"], cacheKey("getMarketData", ID_1), now)
    /\ cache["ReyaMarketService"][cacheKey("getMarketData", ID_1)].v.marketId = ID_1

\* The time-to-live of each getter's resource, as the README documents it.
C18_DocumentedTTL(op) ==
    CASE op \in {"getMarkets", "getMarketsData", "getMarketData", "getAssets"} -> 30
      [] op \in {"getPrices", "getPrice"} -> 10

\* C18: a value loaded successfully is served from the cache for at most the
\* documented window (markets, market data and assets 30 seconds, prices 10
\* seconds): a call made later than that after the load sends a request.
C18_DocumentedWindows ==
    (lastCall.done /\ lastCall.prior.loaded
        /\ lastCall.startedAt - lastCall.prior.at > C18_DocumentedTTL(lastCall.op))
        => lastCall.requests = 1

\* Every entry in a cache is the last load of its own key, and expires its own
\* resource's TTL after that load.
C19_OwnTTL ==
    \A call \in GetterCalls :
        LET k == cacheKey(call.op, call.arg)
            c == cache[serviceOf(call.op)]
        IN  k \in DOMAIN c =>
                /\ k \in DOMAIN loads
                /\ c[k] = [v |-> loads[k].value, t |-> loads[k].at + C3_TTL(call.op)]

\* An entry is changed or removed only by a call for its own key: one that
\* stores its load, or one that found the entry expired.
C19_OthersKept ==
    \A s \in Services : \A k \in DOMAIN cache[s] :
        (k \notin DOMAIN cache'[s] \/ cache'[s][k] # cache[s][k]) =>
            \/ /\ lastCall'.done
               /\ lastCall'.key = k
               /\ lastCall'.requests = 1
               /\ Len(inflight') = Len(inflight) - 1
            \/ /\ Len(inflight') = Len(inflight) + 1
               /\ inflight'[Len(inflight')].key = k
               /\ ~cacheLive(cache[s], k, now)

\* C19: in a cache that several resources share, each entry expires by the
\* TTL of its own resource kind, not by the instance default, and the expiry,
\* load or refresh of one key leaves the value and the expiry of every other
\* key as they were.
C19_TTLIndependence ==
    []C19_OwnTTL /\ [][C19_OthersKept]_vars

\* The market service holds the markets list, loaded at 0 and good until 300,
\* next to the markets data loaded later, which expires 30 seconds after its
\* own load.
C19_Witness ==
    /\ lastCall.done
    /\ lastCall.op = "getMarketsData"
    /\ lastCall.requests = 1
    /\ lastCall.outcome = "returned"
    /\ lastCall.finishedAt > 0
    /\ KEY_reya_markets \in DOMAIN cache["ReyaMarketService"]
    /\ KEY_reya_markets_data \in DOMAIN cache["ReyaMarketService"]
    /\ cache["ReyaMarketService"][KEY_reya_markets].t = 300
    /\ cache["ReyaMarketService"][KEY_reya_markets_data].t = lastCall.finishedAt + 30

\* The complete responses a getter call can be answered with.
C21_Responses(call) ==
    {fromBody(call.op, apiBody(call.op, call.arg, ver)) : ver \in 1..MaxVersions}

\* The last call loaded its key while another load of the same key, started
\* while the key was missing or expired, completed before it.
C21_Overlapped(call) ==
    /\ call.done
    /\ call.requests = 1
    /\ call.liveBefore.live

\* C21: when several getter calls for one key overlap while the key is
\* missing or expired, every call returns one complete response of a fetch,
\* and the cache holds exactly one complete value, that of the fetch that
\* completed last; no call returns or stores a mixture of two responses.
C21_LastWriteWins ==
    /\ \A call \in GetterCalls :
            LET c == cache[serviceOf(call.op)]
                key == cacheKey(call.op, call.arg)
            IN  key \in DOMAIN c =>
                    /\ c[key].v \in C21_Responses(call)
                    /\ priorLoad(key).loaded
                    /\ c[key].v = priorLoad(key).value
    /\ (lastCall.done /\ lastCall.outcome = "returned") =>
            lastCall.value \in C21_Responses(lastCall)
    /\ (lastCall.done /\ lastCall.requests = 1 /\ lastCall.outcome = "returned") =>
            /\ lastCall.liveAfter.live
            /\ lastCall.liveAfter.entry.v = lastCall.value

\* Two loads of one key overlapped, the exchange's data changed between their
\* responses, both have finished, and the cache holds the later response.
C21_Witness ==
    /\ C21_Overlapped(lastCall)
    /\ lastCall.outcome = "returned"
    /\ lastCall.value # lastCall.liveBefore.entry.v
    /\ inflight = <<>>
    /\ cache[serviceOf(lastCall.op)][lastCall.key].v = lastCall.value

(***************************************************************************)
(* SpecTurn: turns as the runtime drives them.  It composes the state with *)
(* the plugin's providers, asks each action's validate, runs handlers of   *)
(* actions that validated, and ends the turn.  Time passes between turns.  *)
(***************************************************************************)

MaxTurns == 2

\* The texts and the model answers the turns of SpecTurn are run with.
TurnTexts ==
    {TXT_what_is_btc_price, TXT_chto_takoe_rusd, TXT_list_supported_assets, TXT_hello}

TurnOutcomes ==
    { o \in ModelOutcomes :
        \/ o.raised
        \/ /\ ~o.fenced
           /\ o.body.json = "object"
           /\ o.body.intent \in {KNOWLEDGE_QUERY, PRICE_QUERY, ASSET_QUERY, GENERAL_CHAT}
           /\ o.body.confidence = "95"
           /\ o.body.shouldUseAPI = "undefined"
           /\ o.body.shouldUseKnowledge = "undefined"
           /\ o.body.assets = "undefined" }

TurnReceive ==
    /\ phase = "idle"
    /\ nTurns < MaxTurns
    /\ \E t \in TurnTexts : message' = [text |-> t]
    /\ state' = [values |-> EmptyObject, recentActions |-> <<>>]
    /\ phase' = "gate"
    /\ nTurns' = nTurns + 1
    /\ UNCHANGED <<config, providerResult, analysisLog, validateResult, cacheVars,
                   requests, provided, replies>>

\* smartDispatchProvider.get runs and its values are merged into the state.
TurnGate ==
    /\ phase = "gate"
    /\ \E outcome \in TurnOutcomes :
        LET analysis == analyzeIntent(message, outcome)
            result == smartDispatchProviderGet(analysis, now)
        IN  /\ analysisLog' = [path |-> analysis.path, outcome |-> outcome,
                               result |-> analysis]
            /\ providerResult' = [ran |-> TRUE, result |-> result]
            /\ state' = [state EXCEPT !.values = result.values]
    /\ phase' = "market_provider"
    /\ UNCHANGED <<config, message, validateResult, cacheVars, turnVars>>

\* The provider is private: the runtime composes the state without it.
TurnGateSkipped ==
    /\ phase = "gate"
    /\ phase' = "market_provider"
    /\ UNCHANGED <<config, message, state, providerResult, analysisLog, validateResult,
                   cacheVars, turnVars>>

MarketProvider ==
    /\ phase = "market_provider"
    /\ \E failAt \in 0..2 :
        LET r == reyaMarketProviderGet(failAt, remoteVer, now)
        IN  /\ provided' = ("reyaMarketProvider" :> [f \in DOMAIN r \ {"sent"} |-> r[f]])
                                @@ provided
            /\ requests' = requests \cup requestsOf("reyaMarketProvider", r.sent)
    /\ phase' = "price_provider"
    /\ UNCHANGED <<config, message, state, providerResult, analysisLog, validateResult,
                   cacheVars, replies, nTurns>>

PriceProvider ==
    /\ phase = "price_provider"
    /\ \E failAt \in 0..1 :
        LET r == reyaPriceProviderGet(message, failAt, remoteVer, now)
        IN  /\ provided' = ("reyaPriceProvider" :> [f \in DOMAIN r \ {"sent"} |-> r[f]])
                                @@ provided
            /\ requests' = requests \cup requestsOf("reyaPriceProvider", r.sent)
    /\ phase' = "asset_provider"
    /\ UNCHANGED <<config, message, state, providerResult, analysisLog, validateResult,
                   cacheVars, replies, nTurns>>

AssetProvider ==
    /\ phase = "asset_provider"
    /\ \E failAt \in 0..1 :
        LET r == reyaAssetProviderGet(failAt, remoteVer, now)
        IN  /\ provided' = ("reyaAssetProvider" :> [f \in DOMAIN r \ {"sent"} |-> r[f]])
                                @@ provided
            /\ requests' = requests \cup requestsOf("reyaAssetProvider", r.sent)
    /\ phase' = "validate_markets"
    /\ UNCHANGED <<config, message, state, providerResult, analysisLog, validateResult,
                   cacheVars, replies, nTurns>>

\* The runtime runs the handler of GET_REYA_PRICES, whose validate passed.
PricesHandler ==
    /\ phase = "done"
    /\ validateResult["GET_REYA_PRICES"]
    /\ "GET_REYA_PRICES" \notin DOMAIN replies
    /\ \E failAt \in 0..2 :
        LET r == getPricesHandler(message, failAt, remoteVer, now)
        IN  /\ replies' = ("GET_REYA_PRICES" :> [f \in DOMAIN r \ {"sent"} |-> r[f]])
                                @@ replies
            /\ requests' = requests \cup requestsOf("GET_REYA_PRICES", r.sent)
    /\ UNCHANGED <<config, gateVars, cacheVars, provided, nTurns>>

\* The runtime runs the handler of GET_REYA_ASSETS, whose validate passed.
AssetsHandler ==
    /\ phase = "done"
    /\ validateResult["GET_REYA_ASSETS"]
    /\ "GET_REYA_ASSETS" \notin DOMAIN replies
    /\ \E failAt \in 0..1 :
        LET r == getAssetsHandler(message, failAt, remoteVer, now)
        IN  /\ replies' = ("GET_REYA_ASSETS" :> [f \in DOMAIN r \ {"sent"} |-> r[f]])
                                @@ replies
            /\ requests' = requests \cup requestsOf("GET_REYA_ASSETS", r.sent)
    /\ UNCHANGED <<config, gateVars, cacheVars, provided, nTurns>>

NextTurn ==
    \/ TurnReceive
    \/ TurnGate
    \/ TurnGateSkipped
    \/ MarketProvider
    \/ PriceProvider
    \/ AssetProvider
    \/ ValidateMarkets
    \/ ValidatePrices
    \/ ValidateAssets
    \/ PricesHandler
    \/ AssetsHandler
    \/ EndTurn
    \/ (phase = "idle" /\ nTurns > 0 /\ nTicks = 0 /\ Tick)

SpecTurn == Init /\ [][NextTurn]_vars

(***************************************************************************)
(* Claims checked under SpecTurn.                                          *)
(***************************************************************************)

\* C5: a request of the current turn is never for a resource that an earlier
\* turn loaded successfully less than its TTL ago: such a value is served
\* from the cache.
C5_SharedAcrossTurns ==
    \A r \in requests :
        ~(r.prior.loaded /\ r.at - r.prior.at <= C3_TTL(r.op))

\* C8: in a turn for which the gate has published usedSource
\* "knowledge_base", no request is sent to the remote API.
C8_KnowledgeTurnsSendNothing ==
    (published /\ state.values.smartDispatch.usedSource = SRC_knowledge_base)
        => requests = {}

\* Every analysis analyzeIntent can return, over the texts and model answers.
C13_Analyses ==
    { analyzeIntent([text |-> t], o).value : t \in Texts, o \in ModelOutcomes }

C13_Flags(result) ==
    IF has(result.values, "smartDispatch")
    THEN <<result.values.smartDispatch.allowReyaActions,
           result.values.smartDispatch.blockOtherActions,
           result.values.smartDispatch.usedSource>>
    ELSE <<>>

\* The record the gate has published is consistent with its intent alone.
C13_IntentAlone ==
    published =>
        LET sd == state.values.smartDispatch
        IN  /\ ~(sd.allowReyaActions /\ sd.blockOtherActions)
            /\ \A a \in C13_Analyses :
                a.intent = sd.intent =>
                    C13_Flags(smartDispatchProviderGet([raised |-> FALSE, value |-> a], now))
                        = <<sd.allowReyaActions, sd.blockOtherActions, sd.usedSource>>

\* No step of the turn after the gate changes the published record.
C13_RecordKept ==
    (published /\ phase' # "idle") =>
        /\ has(state'.values, "smartDispatch")
        /\ state'.values.smartDispatch = state.values.smartDispatch

\* C13: in every record the gate publishes, allowReyaActions and
\* blockOtherActions are never both true, and the two flags and usedSource are
\* those of every other analysis with the same intent, whatever its
\* confidence, reasoning, shouldUseAPI, shouldUseKnowledge and entities; and no
\* validate or handler of a resource action changes the published record.
C13_FlagsPureInIntent ==
    []C13_IntentAlone /\ [][C13_RecordKept]_vars

\* A handler has run in a turn whose record has an intent that analyses with
\* another confidence and with other source flags share.
C13_Witness ==
    /\ published
    /\ "GET_REYA_PRICES" \in DOMAIN replies
    /\ state.values.smartDispatch.intent = PRICE_QUERY
    /\ state.values.smartDispatch.allowReyaActions
    /\ \E a \in C13_Analyses :
        /\ a.intent = PRICE_QUERY
        /\ a.confidence # state.values.smartDispatch.confidence
        /\ a.shouldUseAPI # state.values.smartDispatch.shouldUseAPI

(***************************************************************************)
(* SpecHandlers: one turn with any of the message texts, in which every    *)
(* action whose validate passed has its handler run, GET_REYA_MARKETS      *)
(* included, with any outcome of its model call and of its requests.       *)
(***************************************************************************)

\* A message arrives, with the exchange serving either version of its data.
HandlersReceive ==
    /\ phase = "idle"
    /\ nTurns = 0
    /\ \E t \in Texts : message' = [text |-> t]
    /\ remoteVer' \in 1..MaxVersions
    /\ state' = [values |-> EmptyObject, recentActions |-> <<>>]
    /\ phase' = "gate"
    /\ nTurns' = nTurns + 1
    /\ UNCHANGED <<config, providerResult, analysisLog, validateResult, now, cache,
                   inflight, lastCall, loads, failedEmpty, nCalls, nTicks,
                   requests, provided, replies>>

\* The runtime runs the handler of GET_REYA_MARKETS, whose validate passed.
MarketsHandler ==
    /\ phase = "done"
    /\ validateResult["GET_REYA_MARKETS"]
    /\ "GET_REYA_MARKETS" \notin DOMAIN replies
    /\ \E extraction \in ExtractionOutcomes, failAt \in 0..3 :
        LET r == getMarketsHandler(message, extraction, failAt, remoteVer, now)
        IN  /\ replies' = ("GET_REYA_MARKETS" :> [f \in DOMAIN r \ {"sent"} |-> r[f]])
                                @@ replies
            /\ requests' = requests \cup requestsOf("GET_REYA_MARKETS", r.sent)
    /\ UNCHANGED <<config, gateVars, cacheVars, provided, nTurns>>

NextHandlers ==
    \/ HandlersReceive
    \/ TurnGate
    \/ TurnGateSkipped
    \/ MarketProvider
    \/ PriceProvider
    \/ AssetProvider
    \/ ValidateMarkets
    \/ ValidatePrices
    \/ ValidateAssets
    \/ MarketsHandler
    \/ PricesHandler
    \/ AssetsHandler
    \/ EndTurn

SpecHandlers == Init /\ [][NextHandlers]_vars

(***************************************************************************)
(* Claims checked under SpecHandlers.                                      *)
(***************************************************************************)

\* A request that the handler of action a sent in this turn has failed.
fetchFailedIn(a) ==
    \E r \in requests : r.by = a /\ ~r.ok

\* The texts among what a handler passed to the reply callback.
C15_Passed(cb) ==
    {cb.text} \cup
    (IF has(cb, "content") THEN {cb.content[f] : f \in DOMAIN cb.content} ELSE {})

C15_Apology(a) ==
    CASE a = "GET_REYA_PRICES" ->
            "Sorry, I couldn't fetch the price data from Reya Network right now. Please try again in a moment."
      [] a = "GET_REYA_MARKETS" ->
            "Sorry, I couldn't fetch the market data from Reya Network right now. Please try again in a moment."
      [] a = "GET_REYA_ASSETS" ->
            "Sorry, I couldn't fetch the asset data from Reya Network right now. Please try again in a moment."

\* C15: a handler one of whose requests to the remote API failed reports
\* success false and passes its fixed apology to the callback as the text, and
\* nothing it passes to the callback is the message of the error, which
\* carries the HTTP status.
C15_ErrorsTranslated ==
    \A a \in DOMAIN replies :
        fetchFailedIn(a) =>
            /\ ~replies[a].success
            /\ replies[a].callback.text = C15_Apology(a)
            /\ errorMessage(replies[a].error) \notin C15_Passed(replies[a].callback)

\* C16: a handler passes its apology to the callback only when one of its
\* requests to the remote API failed, never because a model call failed; and
\* the classifier's model call failing raises nothing.
C16_OnlyFetchFailuresApologise ==
    /\ analysed => ~analysisLog.result.raised
    /\ \A a \in DOMAIN replies :
            replies[a].reply = "apology" => fetchFailedIn(a)

C27_Handlers == {"GET_REYA_PRICES", "GET_REYA_MARKETS", "GET_REYA_ASSETS"}

C27_Apologies ==
    {"Sorry, I couldn't fetch the price data from Reya Network right now. Please try again in a moment.",
     "Sorry, I couldn't fetch the market data from Reya Network right now. Please try again in a moment.",
     "Sorry, I couldn't fetch the asset data from Reya Network right now. Please try again in a moment."}

\* C27: every run of the price, market or asset action handler invokes the
\* callback exactly once, either with the formatted answer (result success =
\* true) or with the apology (result success = false), never with both and
\* never with neither.
C27_OneReply ==
    \A a \in DOMAIN replies \cap C27_Handlers :
        /\ Len(replies[a].callbacks) = 1
        /\ replies[a].success =>
                /\ replies[a].callbacks[1].text = replies[a].reply
                /\ replies[a].callbacks[1].text \notin C27_Apologies \cup {"apology"}
        /\ ~replies[a].success =>
                replies[a].callbacks[1].text \in C27_Apologies

\* In one turn a handler answered and another apologised.
C27_Witness ==
    \E a, b \in DOMAIN replies \cap C27_Handlers :
        /\ replies[a].success
        /\ Len(replies[a].callbacks) = 1
        /\ ~replies[b].success
        /\ Len(replies[b].callbacks) = 1

\* The requests the market handler sent, by getter and outcome.
C28_Sent(op, ok) ==
    \E r \in requests : r.by = "GET_REYA_MARKETS" /\ r.op = op /\ r.ok = ok

\* The markets list and the all-markets data loaded, a target market was
\* found, and the fetch of its own data failed.
C28_PartialFailure ==
    /\ "GET_REYA_MARKETS" \in DOMAIN replies
    /\ C28_Sent("getMarkets", TRUE)
    /\ C28_Sent("getMarketsData", TRUE)
    /\ C28_Sent("getMarketData", FALSE)

\* The volume the all-markets data holds for the market of a ticker, 0 if it
\* holds no record of it.
C28_BasicVolume(ticker) ==
    LET markets == marketsBody(remoteVer)
        data == marketsDataBody(remoteVer)
        ids == {markets[i].id : i \in {j \in 1..Len(markets) : markets[j].ticker = ticker}}
        recs == {i \in 1..Len(data) : data[i].marketId \in ids}
    IN  IF recs = {} THEN 0 ELSE data[CHOOSE i \in recs : TRUE].last24hVolume

\* C28: when the markets list and the all-markets data load and a target
\* market is found, a failure of the per-market data fetch does not fail the
\* turn: the handler replies with the basic data taken from the all-markets
\* data (volume 0 if that market has no record), not with the apology, and
\* returns success = true.
C28_FallsBackToBasicData ==
    C28_PartialFailure =>
        /\ replies["GET_REYA_MARKETS"].success
        /\ replies["GET_REYA_MARKETS"].reply = "basic data"
        /\ replies["GET_REYA_MARKETS"].callbacks = << [text |-> "basic data"] >>
        /\ replies["GET_REYA_MARKETS"].volume =
                C28_BasicVolume(replies["GET_REYA_MARKETS"].ticker)

\* The fallback answered with a volume found in the all-markets data.
C28_Witness ==
    /\ C28_PartialFailure
    /\ replies["GET_REYA_MARKETS"].success
    /\ replies["GET_REYA_MARKETS"].volume > 0

\* The fallback answered for a market the all-markets data has no record of.
C28_WitnessNoRecord ==
    /\ C28_PartialFailure
    /\ replies["GET_REYA_MARKETS"].success
    /\ replies["GET_REYA_MARKETS"].ticker = TICKER_ETH_rUSD
    /\ remoteVer = 2
    /\ replies["GET_REYA_MARKETS"].volume = 0

(***************************************************************************)
(* SpecConfig: the agent starts with any REYA_API_BASE_URL setting, loads  *)
(* the plugin and handles a message.  A fetch whose URL does not parse     *)
(* rejects: every request made with such a base URL fails.                 *)
(***************************************************************************)

InitSettings ==
    /\ InitGate
    /\ InitCache
    /\ InitTurn
    /\ \E s \in Settings : config = [setting |-> s, loaded |-> FALSE]

\* The runtime registers reyaPlugin, which declares name, description,
\* providers, evaluators, services and actions, and no init: nothing calls
\* validateReyaConfig.
LoadPlugin ==
    /\ ~config.loaded
    /\ config' = [config EXCEPT !.loaded = TRUE]
    /\ UNCHANGED <<gateVars, cacheVars, turnVars>>

ConfigReceive ==
    /\ config.loaded
    /\ HandlersReceive

\* The requests of this step all failed, unless their URLs parse.
rejectsUnparsed ==
    fetchUrlParses(getReyaConfig(config.setting))
        \/ \A r \in requests' \ requests : ~r.ok

ConfigMarketProvider == MarketProvider /\ rejectsUnparsed

ConfigPriceProvider == PriceProvider /\ rejectsUnparsed

ConfigAssetProvider == AssetProvider /\ rejectsUnparsed

NextConfig ==
    \/ LoadPlugin
    \/ ConfigReceive
    \/ TurnGate
    \/ TurnGateSkipped
    \/ ConfigMarketProvider
    \/ ConfigPriceProvider
    \/ ConfigAssetProvider
    \/ ValidateMarkets
    \/ ValidatePrices
    \/ ValidateAssets
    \/ EndTurn

SpecConfig == InitSettings /\ [][NextConfig]_vars

(***************************************************************************)
(* Claims checked under SpecConfig.                                        *)
(***************************************************************************)

\* C17: when the configured base URL is not a well-formed URL, the plugin is
\* never loaded, and no request for markets, market data, prices or assets is
\* made with that base URL.
C17_ConfigFailsFast ==
    validateReyaConfig(config.setting).raised =>
        /\ ~config.loaded
        /\ requests = {}

\* The second half of C17 alone: a request is made with a base URL that is
\* not well formed.
C17_NoRequestWithBadUrl ==
    validateReyaConfig(config.setting).raised => requests = {}

(***************************************************************************)
(* getTopMarketsByVolume as a function of the list getMarketsData returned *)
(* and of its limit: the inputs are drawn initially and the call applies   *)
(* the function to them.                                                   *)
(***************************************************************************)

\* The longest markets-data list drawn.
MaxMarkets == 3

\* The largest limit drawn. A limit is a number of records: no array has
\* fewer than zero of them.
MaxLimit == 4

Limits == 0..MaxLimit

Volumes == {0, 100, 150}

\* The MarketData records a list is drawn from.
MarketDataRecords ==
    [marketId : {ID_1, ID_2}, last24hVolume : Volumes]

MarketsDataLists ==
    UNION {[1..n -> MarketDataRecords] : n \in 0..MaxMarkets}

InitTop ==
    /\ InitGate /\ InitTurn /\ InitConfig
    /\ now = 0
    /\ remoteVer = 1
    /\ cache = [s \in Services |-> EmptyCache]
    /\ inflight = <<>>
    /\ loads = [k \in {} |-> NoLoad]
    /\ failedEmpty = {}
    /\ nCalls = 0
    /\ nTicks = 0
    /\ \E marketsData \in MarketsDataLists, limit \in Limits :
            lastCall = [done |-> FALSE, op |-> "getTopMarketsByVolume",
                        marketsData |-> marketsData, limit |-> limit]

\* await getTopMarketsByVolume(limit)
TopMarketsByVolume ==
    /\ ~lastCall.done
    /\ lastCall' = [done |-> TRUE, op |-> lastCall.op,
                    marketsData |-> lastCall.marketsData,
                    limit |-> lastCall.limit,
                    value |-> getTopMarketsByVolume(lastCall.marketsData,
                                                    lastCall.limit)]
    /\ UNCHANGED <<config, now, remoteVer, cache, inflight, loads, failedEmpty,
                   nCalls, nTicks, gateVars, turnVars>>

NextTop ==
    TopMarketsByVolume

SpecTop == InitTop /\ [][NextTop]_vars

(***************************************************************************)
(* Claims checked under SpecTop.                                           *)
(***************************************************************************)

\* The ways of taking each returned record from a place of its own in the list.
C20_Places(value, marketsData) ==
    {f \in [1..Len(value) -> 1..Len(marketsData)] :
        /\ \A i, j \in 1..Len(value) : f[i] = f[j] => i = j
        /\ \A i \in 1..Len(value) : value[i] = marketsData[f[i]]}

C20_Count(call) ==
    Len(call.value) <= call.limit

C20_Order(call) ==
    /\ \A i, j \in 1..Len(call.value) :
            i < j => call.value[i].last24hVolume >= call.value[j].last24hVolume
    /\ \E f \in C20_Places(call.value, call.marketsData) :
            \A k \in (1..Len(call.marketsData)) \ {f[i] : i \in 1..Len(call.value)} :
                \A i \in 1..Len(call.value) :
                    call.marketsData[k].last24hVolume <= call.value[i].last24hVolume

\* C20: getTopMarketsByVolume(limit) returns at most limit records, each a
\* record of the current markets-data list, in non-increasing order of
\* last24hVolume, and no record left out has a strictly larger volume than a
\* record returned.
C20_TopByVolume ==
    lastCall.done => C20_Count(lastCall) /\ C20_Order(lastCall)

\* A limit smaller than the list cuts a list that was not in volume order and
\* that holds two records of the same volume.
C20_Witness ==
    /\ lastCall.done
    /\ lastCall.limit > 0
    /\ lastCall.limit < Len(lastCall.marketsData)
    /\ Len(lastCall.value) = lastCall.limit
    /\ lastCall.value # slice(lastCall.marketsData, lastCall.limit)
    /\ \E i, j \in 1..Len(lastCall.marketsData) :
            /\ i # j
            /\ lastCall.marketsData[i].last24hVolume =
                    lastCall.marketsData[j].last24hVolume

(***************************************************************************)
(* One call of a getter, from its first line to its return or throw, on a  *)
(* service whose cache is empty or holds the key from an earlier load.     *)
(***************************************************************************)

\* The times of the call, in seconds after the earlier load: within and
\* beyond each configured TTL.
CallTimes == {1, 10, 11, 30, 31, 300, 301, 1800, 1801}

InitGetter ==
    /\ InitGate /\ InitTurn /\ InitConfig
    /\ inflight = <<>>
    /\ loads = [k \in {} |-> NoLoad]
    /\ failedEmpty = {}
    /\ nCalls = 0
    /\ nTicks = 0
    /\ now \in CallTimes
    /\ remoteVer \in 1..MaxVersions
    /\ \E call \in GetterCalls, loaded \in BOOLEAN :
        /\ lastCall = [done |-> FALSE, op |-> call.op, arg |-> call.arg]
        /\ cache = [s \in Services |->
                        IF loaded /\ s = serviceOf(call.op)
                        THEN cacheSet(EmptyCache, cacheKey(call.op, call.arg),
                                      fromBody(call.op, apiBody(call.op, call.arg, 1)),
                                      ttlOf(call.op), 0)
                        ELSE EmptyCache]

\* The call runs; its request, if it sends one, is answered or fails.
CallGetter ==
    /\ ~lastCall.done
    /\ \E ok \in BOOLEAN :
        LET svc == serviceOf(lastCall.op)
            r == callGetter(cache[svc], lastCall.op, lastCall.arg, ok, remoteVer, now)
        IN  /\ cache' = [cache EXCEPT ![svc] = r.cache]
            /\ lastCall' = [done |-> TRUE, op |-> lastCall.op, arg |-> lastCall.arg,
                            raised |-> r.raised, value |-> r.value,
                            sent |-> r.sent]
    /\ UNCHANGED <<config, now, remoteVer, inflight, loads, failedEmpty, nCalls,
                   nTicks, gateVars, turnVars>>

NextGetter ==
    CallGetter

SpecGetter == InitGetter /\ [][NextGetter]_vars

(***************************************************************************)
(* Claims checked under SpecGetter.                                        *)
(***************************************************************************)

\* C22: a single call of a cache getter issues at most one network request;
\* if that request fails the getter raises on this first failure without
\* issuing a second request.
C22_NoRetries ==
    lastCall.done =>
        /\ Len(lastCall.sent) <= 1
        /\ \A i \in 1..Len(lastCall.sent) :
                /\ lastCall.sent[i].op = lastCall.op
                /\ lastCall.sent[i].arg = lastCall.arg
                /\ ~lastCall.sent[i].ok => lastCall.raised /\ i = Len(lastCall.sent)
        /\ lastCall.raised => Len(lastCall.sent) = 1 /\ ~lastCall.sent[1].ok

\* A call that found its key expired sent one request, which failed, and
\* raised.
C22_Witness ==
    /\ lastCall.done
    /\ lastCall.raised
    /\ Len(lastCall.sent) = 1
    /\ ~lastCall.sent[1].ok
    /\ now > ttlOf(lastCall.op)
    /\ cacheKey(lastCall.op, lastCall.arg) \notin DOMAIN cache[serviceOf(lastCall.op)]

(***************************************************************************)
(* SpecDispatch: one turn in which the gate provider publishes its record  *)
(* and the runtime runs the SMART_REYA_DISPATCH action.  Each of the two   *)
(* asks the model for its own analysis of the message.                     *)
(***************************************************************************)

\* What the model answers in these turns: it raises, or returns an object
\* with any intent, with or without an extracted asset.
DispatchOutcomes ==
    { o \in ModelOutcomes :
        \/ o.raised
        \/ /\ ~o.fenced
           /\ o.body.json = "object"
           /\ o.body.confidence = "95"
           /\ o.body.shouldUseAPI = "undefined"
           /\ o.body.shouldUseKnowledge = "undefined" }

DispatchReceive ==
    /\ phase = "idle"
    /\ nTurns = 0
    /\ \E t \in Texts : message' = [text |-> t]
    /\ state' = [values |-> EmptyObject, recentActions |-> <<>>]
    /\ phase' = "gate"
    /\ nTurns' = nTurns + 1
    /\ UNCHANGED <<config, providerResult, analysisLog, validateResult, cacheVars,
                   requests, provided, replies>>

\* smartDispatchProvider.get runs and its values are merged into the state.
DispatchGate ==
    /\ phase = "gate"
    /\ \E outcome \in DispatchOutcomes :
        LET analysis == analyzeIntent(message, outcome)
            result == smartDispatchProviderGet(analysis, now)
        IN  /\ analysisLog' = [path |-> analysis.path, outcome |-> outcome,
                               result |-> analysis]
            /\ providerResult' = [ran |-> TRUE, result |-> result]
            /\ state' = [state EXCEPT !.values = result.values]
    /\ phase' = "dispatch"
    /\ UNCHANGED <<config, message, validateResult, cacheVars, turnVars>>

\* The runtime runs smartDispatchAction.handler, with or without a callback.
SmartDispatchAction ==
    /\ phase = "dispatch"
    /\ \E outcome \in DispatchOutcomes, failAt \in 0..2, hasCallback \in BOOLEAN :
        LET analysis == analyzeIntent(message, outcome)
            d == dispatch(analysis, failAt, remoteVer, now, hasCallback)
        IN  /\ replies' = ("SMART_REYA_DISPATCH" :>
                            [analysis |-> analysis.value, dispatch |-> d,
                             result |-> smartDispatchHandler(d)]) @@ replies
            /\ requests' = requests \cup requestsOf("SMART_REYA_DISPATCH", d.sent)
    /\ phase' = "done"
    /\ UNCHANGED <<config, message, state, providerResult, analysisLog, validateResult,
                   cacheVars, provided, nTurns>>

NextDispatch ==
    \/ DispatchReceive
    \/ DispatchGate
    \/ SmartDispatchAction
    \/ EndTurn

SpecDispatch == Init /\ [][NextDispatch]_vars

(***************************************************************************)
(* Claims checked under SpecDispatch.                                      *)
(***************************************************************************)

dispatched == "SMART_REYA_DISPATCH" \in DOMAIN replies

\* C23: for every intent, the admission decision that the asset action's
\* validate derives from the flags published by the smart dispatch provider
\* is the same as the one it derives from the result data recorded by the
\* SMART_REYA_DISPATCH action for the same message: allowReyaActions is
\* truthy in one exactly when it is truthy in the other.
C23_GatePathsAgree ==
    (/\ dispatched
     /\ published
     /\ replies["SMART_REYA_DISPATCH"].analysis.intent =
            state.values.smartDispatch.intent) =>
        (approved(state.values.smartDispatch)
            <=> approved(replies["SMART_REYA_DISPATCH"].result.data))

\* C25: IntentDispatcher.dispatch never raises, and every result it returns
\* satisfies: a response is present only together with shouldProceed = false
\* and usedSource in {reya_api_price, reya_api_market, reya_api_asset};
\* shouldProceed = false without a response occurs only for KNOWLEDGE_QUERY
\* with usedSource = "knowledge_base"; in every other case shouldProceed =
\* true and no reply callback was invoked.
C25_DispatchResults ==
    dispatched =>
        LET d == replies["SMART_REYA_DISPATCH"].dispatch
            intent == replies["SMART_REYA_DISPATCH"].analysis.intent
        IN  /\ ~d.raised
            /\ has(d, "response") =>
                    /\ ~d.shouldProceed
                    /\ d.usedSource \in {SRC_reya_api_price, SRC_reya_api_market,
                                         SRC_reya_api_asset}
            /\ (~d.shouldProceed /\ ~has(d, "response")) =>
                    /\ intent = KNOWLEDGE_QUERY
                    /\ d.usedSource = SRC_knowledge_base
            /\ ~(has(d, "response") \/ intent = KNOWLEDGE_QUERY) =>
                    /\ d.shouldProceed
                    /\ d.callbacks = <<>>

\* The model raised and the keyword fallback classified the text a price
\* query; the prices loaded and the dispatcher replied through the callback.
C25_Witness ==
    /\ dispatched
    /\ replies["SMART_REYA_DISPATCH"].analysis.intent = PRICE_QUERY
    /\ ~has(replies["SMART_REYA_DISPATCH"].analysis, "extractedEntities")
    /\ has(replies["SMART_REYA_DISPATCH"].dispatch, "response")
    /\ replies["SMART_REYA_DISPATCH"].dispatch.callbacks # <<>>
    /\ requests # {}

\* A request of the dispatcher's run failed.
C26_FetchFailed ==
    /\ dispatched
    /\ replies["SMART_REYA_DISPATCH"].analysis.intent
            \in {PRICE_QUERY, MARKET_QUERY, ASSET_QUERY}
    /\ \E r \in requests : r.by = "SMART_REYA_DISPATCH" /\ ~r.ok

\* C26: when a remote fetch fails while IntentDispatcher handles a
\* PRICE_QUERY, MARKET_QUERY or ASSET_QUERY, the reply callback is not
\* invoked, the result carries no response, shouldProceed = true and
\* usedSource = "api_error", and the SMART_REYA_DISPATCH action then reports
\* success = true with allowReyaActions = true in its data.
C26_ApiFailure ==
    C26_FetchFailed =>
        /\ replies["SMART_REYA_DISPATCH"].dispatch.callbacks = <<>>
        /\ ~has(replies["SMART_REYA_DISPATCH"].dispatch, "response")
        /\ replies["SMART_REYA_DISPATCH"].dispatch.shouldProceed
        /\ replies["SMART_REYA_DISPATCH"].dispatch.usedSource = SRC_api_error
        /\ replies["SMART_REYA_DISPATCH"].result.success
        /\ has(replies["SMART_REYA_DISPATCH"].result.data, "allowReyaActions")
        /\ replies["SMART_REYA_DISPATCH"].result.data.allowReyaActions

\* A market query whose markets list loaded and whose markets data did not.
C26_Witness ==
    /\ C26_FetchFailed
    /\ replies["SMART_REYA_DISPATCH"].analysis.intent = MARKET_QUERY
    /\ \E r \in requests : r.by = "SMART_REYA_DISPATCH" /\ r.ok

(***************************************************************************)
(* SpecLookup: the market handler's lookup of the market of a symbol, on   *)
(* any short list of markets.                                              *)
(***************************************************************************)

\* The longest list of markets drawn.
MaxLookupMarkets == 3

LookupTickers ==
    {TICKER_BTC_rUSD, TICKER_WBTC_rUSD, TICKER_ETH_rUSD, TICKER_btc_rusd, BTC}

\* The symbols the model's answer is parsed to, in either case.
LookupSymbols ==
    {BTC, symbolRules[2].keys[1], symbolRules[3].symbol, symbolRules[4].symbol}

\* The markets of a list carry the ids "1", "2", ... in list order.
LookupLists ==
    UNION {{[i \in 1..n |-> [id |-> String(i), ticker |-> tickers[i],
                             isActive |-> TRUE]] :
                tickers \in [1..n -> LookupTickers]} :
           n \in 0..MaxLookupMarkets}

InitLookup ==
    /\ InitGate /\ InitTurn /\ InitConfig
    /\ now = 0
    /\ remoteVer = 1
    /\ cache = [s \in Services |-> EmptyCache]
    /\ inflight = <<>>
    /\ loads = [k \in {} |-> NoLoad]
    /\ failedEmpty = {}
    /\ nCalls = 0
    /\ nTicks = 0
    /\ \E markets \in LookupLists, symbol \in LookupSymbols :
            lastCall = [done |-> FALSE, op |-> "findTargetMarket",
                        markets |-> markets, symbol |-> symbol]

\* const assetSymbol = symbol.toUpperCase(); the two markets.find calls
FindTargetMarket ==
    /\ ~lastCall.done
    /\ lastCall' = [done |-> TRUE, op |-> lastCall.op,
                    markets |-> lastCall.markets,
                    symbol |-> lastCall.symbol,
                    assetSymbol |-> toUpperCase(lastCall.symbol),
                    value |-> findTargetMarket(lastCall.markets,
                                               toUpperCase(lastCall.symbol))]
    /\ UNCHANGED <<config, now, remoteVer, cache, inflight, loads, failedEmpty,
                   nCalls, nTicks, gateVars, turnVars>>

NextLookup ==
    FindTargetMarket

SpecLookup == InitLookup /\ [][NextLookup]_vars

(***************************************************************************)
(* Claims checked under SpecLookup.                                        *)
(***************************************************************************)

\* The market's upper-cased ticker equals S or starts with "S-".
C30_Matches(market, S) ==
    \/ toUpperCase(market.ticker) = S
    \/ /\ Len(market.ticker) > Len(S)
       /\ SubSeq(toUpperCase(market.ticker), 1, Len(S) + 1) = S \o <<45>>

\* The market's upper-cased ticker has S somewhere in it.
C30_Contains(market, S) ==
    \E at \in 1..(Len(market.ticker) - Len(S) + 1) :
        SubSeq(toUpperCase(market.ticker), at, at + Len(S) - 1) = S

\* The place of the first market of the list that P holds of, 0 if none.
C30_FirstPlace(markets, P(_)) ==
    IF \E i \in 1..Len(markets) : P(markets[i])
    THEN CHOOSE i \in 1..Len(markets) :
            /\ P(markets[i])
            /\ \A j \in 1..(i - 1) : ~P(markets[j])
    ELSE 0

\* C30: for the upper-cased symbol S, when some market's upper-cased ticker
\* equals S or starts with "S-" the lookup selects the first such market of
\* the list; otherwise, when some market's upper-cased ticker contains S, it
\* selects the first such market of the list; a market that only contains S
\* is never selected while another market matches exactly or by prefix.
C30_LookupPrecedence ==
    lastCall.done =>
        LET markets == lastCall.markets
            S == lastCall.assetSymbol
            Matches(m) == C30_Matches(m, S)
            Contains(m) == C30_Contains(m, S)
            exact == C30_FirstPlace(markets, Matches)
            loose == C30_FirstPlace(markets, Contains)
        IN  /\ exact # 0 =>
                    /\ lastCall.value.found
                    /\ lastCall.value.value = markets[exact]
            /\ (exact = 0 /\ loose # 0) =>
                    /\ lastCall.value.found
                    /\ lastCall.value.value = markets[loose]
            /\ (lastCall.value.found /\ ~Matches(lastCall.value.value)) =>
                    exact = 0

\* WBTC-rUSD stands before BTC-rUSD in the list and BTC-rUSD is selected
\* for the symbol "btc".
C30_Witness ==
    /\ lastCall.done
    /\ lastCall.symbol = symbolRules[2].keys[1]
    /\ Len(lastCall.markets) >= 2
    /\ lastCall.markets[1].ticker = TICKER_WBTC_rUSD
    /\ lastCall.markets[2].ticker = TICKER_BTC_rUSD
    /\ lastCall.value.found
    /\ lastCall.value.value.id = ID_2

\* No market matches exactly or by prefix, two contain the symbol, and the
\* first of them is selected.
C30_WitnessContains ==
    /\ lastCall.done
    /\ lastCall.assetSymbol = BTC
    /\ Len(lastCall.markets) = 3
    /\ lastCall.markets[1].ticker = TICKER_ETH_rUSD
    /\ lastCall.markets[2].ticker = TICKER_WBTC_rUSD
    /\ lastCall.markets[3].ticker = TICKER_WBTC_rUSD
    /\ lastCall.value.found
    /\ lastCall.value.value.id = ID_2

====
